---- MODULE Spec2Model ----
(***************************************************************************)
(* Release announcer: the commit-to-change mapping loop, the previous      *)
(* release resolver, the Slack text chunker, the button value codec, the   *)
(* /release command with its interactive preview, the announce function   *)
(* and the HTTP endpoints api/announce and api/test, modelled from the     *)
(* source.                                                                 *)
(* A JavaScript string is a sequence of one-character strings.             *)
(***************************************************************************)
EXTENDS Integers, Sequences, FiniteSets, TLC

VARIABLES
    handler,            \* which loop runs: "announce" (api/announce) or "release" (/release)
    commits,            \* comparison.commits
    filterEmptyCommits, \* option of generateAndSendAnnouncement
    idx,                \* position of the for..of loop (next commit to visit)
    processedCommits,   \* Set of 7-character shas already seen
    releaseChanges,     \* the output array
    mapPc,              \* "idle" | "loop" | "done"
    releaseNumber,      \* argument of getPreviousRelease
    relResult,          \* outcome of getPreviousRelease
    text,               \* argument of chunkTextForSlack
    maxLength,          \* argument of chunkTextForSlack
    chunks,             \* result of chunkTextForSlack
    chunkPc,            \* "idle" | "call" | "done"
    data,               \* argument of createSafeButtonValue
    tokenMax,           \* argument maxLength of createSafeButtonValue
    token,              \* result of createSafeButtonValue
    tokenPc,            \* "idle" | "call" | "done"
    op,                 \* the operation that runs: "release", "extract", "announce" or "none"
    request,            \* what the caller supplies: release number, channel, user, options
    comparison,         \* the answer of octokit.repos.compareCommits for the two branches
    result,             \* what the operation returned to its caller
    message,            \* the interactive preview the user sees (its blocks)
    state,              \* body.state of the interaction: the selected options of each group
    outbox,             \* the calls of chat.postMessage and chat.postEphemeral, in order
    responses,          \* the calls of respond(), in order
    fetches,            \* the calls of octokit.repos.compareCommits, in order
    appPc,              \* "idle" | "start" | "preview" | "sent" | "cancelled" | "done"
    processEnv,         \* process.env of the deployment
    clock,              \* Date.now()
    requestCounts,      \* the Map of api/test: client id -> count and timestamp
    httpReq,            \* the request an HTTP endpoint is handling, or handled last
    httpRes,            \* the response it gave
    history             \* per client id, the answers of api/test so far

vars == <<handler, commits, filterEmptyCommits, idx, processedCommits,
          releaseChanges, mapPc, releaseNumber, relResult, text, maxLength, chunks,
          chunkPc, data, tokenMax, token, tokenPc, op, request, comparison, result,
          message, state, outbox, responses, fetches, appPc, processEnv, clock,
          requestCounts, httpReq, httpRes, history>>

mapVars == <<handler, commits, filterEmptyCommits, idx, processedCommits,
             releaseChanges, mapPc>>
relVars == <<releaseNumber, relResult>>
chunkVars == <<text, maxLength, chunks, chunkPc>>
tokenVars == <<data, tokenMax, token, tokenPc>>
appVars == <<op, request, comparison, result, message, state, outbox, responses, fetches,
             appPc>>
httpVars == <<processEnv, clock, requestCounts, httpReq, httpRes, history>>

----------------------------------------------------------------------------
(* Bounds of the model *)

MaxFrags == 3
MaxCommits == 3
MaxRelLen == 4
MaxTextLen == 6
MaxChunkLen == 5
MaxTokenChanges == 3
MaxFlowCommits == 2
MaxToggled == 2
MaxChecked == 2
ManyIssues == 31
ManyTickets == 26
MoreTickets == 40
MaxAnnounceCommits == 2
MaxTemplateFrags == 2

----------------------------------------------------------------------------
(* Characters and strings *)

LowerLetters == <<"a", "b", "c", "d", "e", "f", "g", "h", "i", "j", "k", "l", "m",
                  "n", "o", "p", "q", "r", "s", "t", "u", "v", "w", "x", "y", "z">>
UpperLetters == <<"A", "B", "C", "D", "E", "F", "G", "H", "I", "J", "K", "L", "M",
                  "N", "O", "P", "Q", "R", "S", "T", "U", "V", "W", "X", "Y", "Z">>
Digits == <<"0", "1", "2", "3", "4", "5", "6", "7", "8", "9">>

Range(s) == {s[i] : i \in DOMAIN s}

DigitChars == Range(Digits)
WordChars == Range(LowerLetters) \cup Range(UpperLetters) \cup Range(Digits) \cup {"_"}
SpaceChars == {" ", "\t", "\n", "\r"}
UpperOf == [c \in Range(LowerLetters) |->
              UpperLetters[CHOOSE i \in DOMAIN LowerLetters : LowerLetters[i] = c]]

\* \d of a JavaScript regular expression
IsDigit(c) == c \in DigitChars
\* \w of a JavaScript regular expression
IsWordChar(c) == c \in WordChars
\* \s of a JavaScript regular expression, and the characters String.trim removes
IsSpace(c) == c \in SpaceChars

\* String.prototype.toUpperCase, one character
UpperChar(c) == IF c \in DOMAIN UpperOf THEN UpperOf[c] ELSE c

\* String.prototype.toUpperCase
toUpperCase(s) == [i \in DOMAIN s |-> UpperChar(s[i])]

\* the character U+2022 (BULLET) that starts a change line
Bullet == "U+2022"
\* the character U+0060 (GRAVE ACCENT) that Slack marks code with
Backtick == "U+0060"

\* the value of a property that was never set
Absent == <<"undefined">>

\* String.prototype.substring(from, to) with 0-based bounds, clamped as JavaScript does
substring(s, from, to) ==
    LET cl(n) == IF n < 0 THEN 0 ELSE IF n > Len(s) THEN Len(s) ELSE n
        a == cl(from)
        b == cl(to)
        lo == IF a < b THEN a ELSE b
        hi == IF a < b THEN b ELSE a
    IN SubSeq(s, lo + 1, hi)

\* F(v), with v evaluated once
With(v, F(_)) == CHOOSE r \in { F(x) : x \in {v} } : TRUE

\* the elements of a finite set of integers, in increasing order
Sorted(S) == [k \in 1..Cardinality(S) |-> CHOOSE i \in S : Cardinality({ m \in S : m <= i }) = k]

RECURSIVE ConcatRange(_, _, _)
\* the elements lo..hi of a sequence of sequences, concatenated
ConcatRange(ss, lo, hi) ==
    IF lo > hi THEN <<>>
    ELSE IF lo = hi THEN ss[lo]
    ELSE ConcatRange(ss, lo, (lo + hi) \div 2) \o ConcatRange(ss, (lo + hi) \div 2 + 1, hi)

\* Array.prototype.join('')
Concat(ss) == With(ss, LAMBDA q : ConcatRange(q, 1, Len(q)))

\* the pieces of s from position i on, cut at every occurrence of sep
SplitFrom(s, sep, i) ==
    With(Sorted({ k \in i..Len(s) : s[k] = sep }),
         LAMBDA at : [j \in 1..(Len(at) + 1) |->
                        SubSeq(s, IF j = 1 THEN i ELSE at[j - 1] + 1,
                                  IF j = Len(at) + 1 THEN Len(s) ELSE at[j] - 1)])

\* String.prototype.split with a one-character separator
split(s, sep) == SplitFrom(s, sep, 1)

\* Array.prototype.join(sep)
JoinWith(ss, sep) ==
    With(ss, LAMBDA q : ConcatRange([k \in 1..(2 * Len(q) - 1) |->
                                       IF k % 2 = 1 THEN q[(k + 1) \div 2] ELSE sep],
                                    1, 2 * Len(q) - 1))

\* String.prototype.trim
trim(s) ==
    IF \A i \in DOMAIN s : IsSpace(s[i]) THEN <<>>
    ELSE LET a == CHOOSE i \in DOMAIN s : ~IsSpace(s[i]) /\ \A k \in 1..(i - 1) : IsSpace(s[k])
             b == CHOOSE i \in DOMAIN s : ~IsSpace(s[i]) /\ \A k \in (i + 1)..Len(s) : IsSpace(s[k])
         IN SubSeq(s, a, b)

\* end of the maximal run of digits that starts at position i (i - 1 when there is none)
DigitRunEnd(s, i) ==
    IF i > Len(s) \/ ~IsDigit(s[i]) THEN i - 1
    ELSE CHOOSE e \in i..Len(s) :
            /\ \A k \in i..e : IsDigit(s[k])
            /\ (e = Len(s) \/ ~IsDigit(s[e + 1]))

----------------------------------------------------------------------------
(* Environment *)

\* process.env.JIRA_PROJECT
JIRA_PROJECT == <<"A", "B", "C">>
\* process.env.JIRA_SERVER
JIRA_SERVER == <<"j", ".", "i", "o">>
\* process.env.GITHUB_OWNER, process.env.GITHUB_REPO
GITHUB_OWNER == <<"o">>
GITHUB_REPO == <<"r">>

StartsWith(s, p) == Len(s) >= Len(p) /\ SubSeq(s, 1, Len(p)) = p

formatJiraServerUrl(jiraServer) ==
    IF jiraServer = <<>> THEN <<>>
    ELSE IF StartsWith(jiraServer, <<"h", "t", "t", "p", ":", "/", "/">>)
            \/ StartsWith(jiraServer, <<"h", "t", "t", "p", "s", ":", "/", "/">>)
    THEN jiraServer
    ELSE <<"h", "t", "t", "p", "s", ":", "/", "/">> \o jiraServer

JiraUrl(key) == formatJiraServerUrl(JIRA_SERVER) \o <<"/", "b", "r", "o", "w", "s", "e", "/">> \o key

GithubUrl(ref) ==
    <<"h", "t", "t", "p", "s", ":", "/", "/", "g", "i", "t", "h", "u", "b", ".", "c", "o", "m", "/">>
    \o GITHUB_OWNER \o <<"/">> \o GITHUB_REPO \o <<"/", "p", "u", "l", "l", "/">> \o ref

----------------------------------------------------------------------------
(* The regular expressions of the mapping loop *)

\* \b between positions i - 1 and i of s
WordBoundaryBefore(s, i) ==
    LET l == i > 1 /\ i - 1 <= Len(s) /\ IsWordChar(s[i - 1])
        r == i <= Len(s) /\ IsWordChar(s[i])
    IN l # r

\* new RegExp(`\\b${JIRA_PROJECT}-\\d+\\b`, 'gi') tried at position i:
\* the position of the last character of the match, 0 when there is none
JiraMatchEnd(s, i) ==
    LET n == Len(JIRA_PROJECT)
        e == DigitRunEnd(s, i + n + 1)
    IN IF /\ i + n <= Len(s)
          /\ WordBoundaryBefore(s, i)
          /\ toUpperCase(SubSeq(s, i, i + n - 1)) = toUpperCase(JIRA_PROJECT)
          /\ s[i + n] = "-"
          /\ e >= i + n + 1
          /\ WordBoundaryBefore(s, e + 1)
       THEN e ELSE 0

RECURSIVE JiraMatchesFrom(_, _)
\* the matches found from position i on: the leftmost one, then those after its end
JiraMatchesFrom(s, i) ==
    LET starts == { k \in i..Len(s) : JiraMatchEnd(s, k) > 0 }
    IN IF starts = {} THEN <<>>
       ELSE LET k == CHOOSE k \in starts : \A m \in starts : k <= m
                e == JiraMatchEnd(s, k)
            IN <<SubSeq(s, k, e)>> \o JiraMatchesFrom(s, e + 1)

\* allText.match(jiraRegex); the empty sequence stands for null
JiraMatches(s) == JiraMatchesFrom(s, 1)

\* /#(\d+)/g tried at position i
GithubMatchEnd(s, i) ==
    LET e == DigitRunEnd(s, i + 1)
    IN IF s[i] = "#" /\ e >= i + 1 THEN e ELSE 0

RECURSIVE GithubMatchesFrom(_, _)
\* the matches found from position i on: the leftmost one, then those after its end
GithubMatchesFrom(s, i) ==
    LET starts == { k \in i..Len(s) : GithubMatchEnd(s, k) > 0 }
    IN IF starts = {} THEN <<>>
       ELSE LET k == CHOOSE k \in starts : \A m \in starts : k <= m
                e == GithubMatchEnd(s, k)
            IN <<SubSeq(s, k, e)>> \o GithubMatchesFrom(s, e + 1)

\* allText.match(githubRegex); the empty sequence stands for null
GithubMatches(s) == GithubMatchesFrom(s, 1)

\* githubMatches[0].replace('#', '')
StripHash(m) ==
    IF \E i \in DOMAIN m : m[i] = "#"
    THEN LET i == CHOOSE i \in DOMAIN m : m[i] = "#" /\ \A k \in 1..(i - 1) : m[k] # "#"
         IN SubSeq(m, 1, i - 1) \o SubSeq(m, i + 1, Len(m))
    ELSE m

\* last position of s that is not whitespace (0 when there is none)
LastNonSpace(s) ==
    IF \A i \in DOMAIN s : IsSpace(s[i]) THEN 0
    ELSE CHOOSE i \in DOMAIN s : ~IsSpace(s[i]) /\ \A k \in (i + 1)..Len(s) : IsSpace(s[k])

\* first position of the maximal run of whitespace that ends right before position i
SpaceRunStart(s, i) ==
    CHOOSE a \in 1..i :
        /\ \A k \in a..(i - 1) : IsSpace(s[k])
        /\ (a = 1 \/ ~IsSpace(s[a - 1]))

\* first position of the maximal run of digits that ends at position e (e + 1 when there is none)
DigitRunStart(s, e) ==
    IF e < 1 \/ ~IsDigit(s[e]) THEN e + 1
    ELSE CHOOSE a \in 1..e :
            /\ \A k \in a..e : IsDigit(s[k])
            /\ (a = 1 \/ ~IsDigit(s[a - 1]))

\* s.replace(/\s*\(#\d+\)\s*$/, '')
StripParenRef(s) ==
    LET z == LastNonSpace(s)
        d == DigitRunStart(s, z - 1)
    IN IF /\ z >= 4
          /\ s[z] = ")"
          /\ d <= z - 1
          /\ d >= 3
          /\ s[d - 1] = "#"
          /\ s[d - 2] = "("
       THEN SubSeq(s, 1, SpaceRunStart(s, d - 2) - 1)
       ELSE s

\* s.replace(/\s*#\d+\s*$/, '')
StripBareRef(s) ==
    LET z == LastNonSpace(s)
        d == DigitRunStart(s, z)
    IN IF /\ z >= 2
          /\ d <= z
          /\ d >= 2
          /\ s[d - 1] = "#"
       THEN SubSeq(s, 1, SpaceRunStart(s, d - 1) - 1)
       ELSE s

\* commitTitle.replace(/\s*\(#\d+\)\s*$/, '').replace(/\s*#\d+\s*$/, '')
CleanTitle(title) == StripBareRef(StripParenRef(title))

----------------------------------------------------------------------------
(* The commit-mapping loop *)

\* mutant: the whole sha is the key of the seen-set
ShortId_FullSha(commit) == commit.sha

\* commit.sha.substring(0, 7)
ShortId(commit) == substring(commit.sha, 0, 7)
\* commit.commit.message.split('\n')[0]
CommitTitle(commit) == split(commit.message, "\n")[1]
\* `${commitTitle} ${commitMessage}`
AllText(commit) == CommitTitle(commit) \o <<" ">> \o commit.message

\* mutant: the matches are recorded as written, not uppercased
JiraEntry_RawRefs(commit) ==
    LET jiraMatches == JiraMatches(AllText(commit))
        githubMatches == GithubMatches(AllText(commit))
        firstJiraTicket == toUpperCase(jiraMatches[1])
        hasGithub == Len(githubMatches) > 0
        firstGithubRef == StripHash(githubMatches[1])
    IN [type |-> "jira",
        key |-> firstJiraTicket,
        summary |-> CleanTitle(CommitTitle(commit)),
        url |-> JiraUrl(firstJiraTicket),
        commitSha |-> ShortId(commit),
        commitAuthor |-> commit.author,
        allJiraRefs |-> jiraMatches,
        githubKey |-> IF hasGithub THEN firstGithubRef ELSE Absent,
        githubUrl |-> IF hasGithub THEN GithubUrl(firstGithubRef) ELSE Absent,
        allGithubRefs |-> IF hasGithub THEN githubMatches ELSE Absent]

\* the change entry pushed for a commit with a JIRA reference (api/announce)
JiraEntry(commit) ==
    LET jiraMatches == JiraMatches(AllText(commit))
        githubMatches == GithubMatches(AllText(commit))
        firstJiraTicket == toUpperCase(jiraMatches[1])
        hasGithub == Len(githubMatches) > 0
        firstGithubRef == StripHash(githubMatches[1])
    IN [type |-> "jira",
        key |-> firstJiraTicket,
        summary |-> CleanTitle(CommitTitle(commit)),
        url |-> JiraUrl(firstJiraTicket),
        commitSha |-> ShortId(commit),
        commitAuthor |-> commit.author,
        allJiraRefs |-> [i \in DOMAIN jiraMatches |-> toUpperCase(jiraMatches[i])],
        githubKey |-> IF hasGithub THEN firstGithubRef ELSE Absent,
        githubUrl |-> IF hasGithub THEN GithubUrl(firstGithubRef) ELSE Absent,
        allGithubRefs |-> IF hasGithub THEN githubMatches ELSE Absent]

\* the change entry pushed for a commit with a GitHub reference and no JIRA one
GithubEntry(commit) ==
    LET githubMatches == GithubMatches(AllText(commit))
        firstGithubRef == StripHash(githubMatches[1])
    IN [type |-> "github",
        key |-> firstGithubRef,
        summary |-> CleanTitle(CommitTitle(commit)),
        url |-> GithubUrl(firstGithubRef),
        commitSha |-> ShortId(commit),
        commitAuthor |-> commit.author,
        allJiraRefs |-> Absent,
        githubKey |-> Absent,
        githubUrl |-> Absent,
        allGithubRefs |-> githubMatches]

\* the change entry pushed for a commit without references
PlainEntry(commit) ==
    [type |-> "plain",
     key |-> ShortId(commit),
     summary |-> CommitTitle(commit),
     url |-> Absent,
     commitSha |-> ShortId(commit),
     commitAuthor |-> commit.author,
     allJiraRefs |-> Absent,
     githubKey |-> Absent,
     githubUrl |-> Absent,
     allGithubRefs |-> Absent]

\* mutant: the GitHub reference is looked at first
AnnounceEntries_IssueFirst(commit, filterEmpty) ==
    IF Len(GithubMatches(AllText(commit))) > 0 THEN <<GithubEntry(commit)>>
    ELSE IF Len(JiraMatches(AllText(commit))) > 0 THEN <<JiraEntry(commit)>>
    ELSE IF ~filterEmpty THEN <<PlainEntry(commit)>>
    ELSE <<>>

\* mutant: the filterEmptyCommits option is not consulted
AnnounceEntries_KeepAll(commit, filterEmpty) ==
    IF Len(JiraMatches(AllText(commit))) > 0 THEN <<JiraEntry(commit)>>
    ELSE IF Len(GithubMatches(AllText(commit))) > 0 THEN <<GithubEntry(commit)>>
    ELSE <<PlainEntry(commit)>>

\* what one iteration of the loop of generateAndSendAnnouncement pushes
AnnounceEntries(commit, filterEmpty) ==
    IF Len(JiraMatches(AllText(commit))) > 0 THEN <<JiraEntry(commit)>>
    ELSE IF Len(GithubMatches(AllText(commit))) > 0 THEN <<GithubEntry(commit)>>
    ELSE IF ~filterEmpty THEN <<PlainEntry(commit)>>
    ELSE <<>>

\* the line pushed by the /release loop for a commit with a JIRA reference
JiraLine(commit) ==
    LET githubMatches == GithubMatches(AllText(commit))
        firstJiraTicket == toUpperCase(JiraMatches(AllText(commit))[1])
        firstGithubRef == StripHash(githubMatches[1])
        changeText == <<Bullet, " ", "<">> \o JiraUrl(firstJiraTicket) \o <<"|">>
                        \o CleanTitle(CommitTitle(commit)) \o <<">">>
    IN IF Len(githubMatches) > 0
       THEN changeText \o <<" ", "<">> \o GithubUrl(firstGithubRef) \o <<"|", "(", "#">>
                \o firstGithubRef \o <<")", ">">>
       ELSE changeText

\* the line pushed by the /release loop for a commit with a GitHub reference only
GithubLine(commit) ==
    LET firstGithubRef == StripHash(GithubMatches(AllText(commit))[1])
    IN <<Bullet, " ">> \o CleanTitle(CommitTitle(commit)) \o <<" ", "<">>
        \o GithubUrl(firstGithubRef) \o <<"|", "(", "#">> \o firstGithubRef \o <<")", ">">>

\* what one iteration of the /release loop pushes
ReleaseLines(commit) ==
    IF Len(JiraMatches(AllText(commit))) > 0 THEN <<JiraLine(commit)>>
    ELSE IF Len(GithubMatches(AllText(commit))) > 0 THEN <<GithubLine(commit)>>
    ELSE <<>>

\* one iteration of the for..of loop of generateAndSendAnnouncement
AnnounceCommit ==
    /\ handler = "announce"
    /\ mapPc = "loop"
    /\ idx <= Len(commits)
    /\ LET commit == commits[idx]
       IN IF ShortId(commit) \in processedCommits
          THEN UNCHANGED <<processedCommits, releaseChanges>>
          ELSE /\ processedCommits' = processedCommits \cup {ShortId(commit)}
               /\ releaseChanges' = releaseChanges \o AnnounceEntries(commit, filterEmptyCommits)
    /\ idx' = idx + 1
    /\ UNCHANGED <<handler, commits, filterEmptyCommits, mapPc>>
    /\ UNCHANGED <<relVars, chunkVars, tokenVars, appVars, httpVars>>

\* one iteration of the for..of loop of the /release command (extractChangesFromGitHub)
ReleaseCommit ==
    /\ handler = "release"
    /\ mapPc = "loop"
    /\ idx <= Len(commits)
    /\ LET commit == commits[idx]
       IN IF ShortId(commit) \in processedCommits
          THEN UNCHANGED <<processedCommits, releaseChanges>>
          ELSE /\ processedCommits' = processedCommits \cup {ShortId(commit)}
               /\ releaseChanges' = releaseChanges \o ReleaseLines(commit)
    /\ idx' = idx + 1
    /\ UNCHANGED <<handler, commits, filterEmptyCommits, mapPc>>
    /\ UNCHANGED <<relVars, chunkVars, tokenVars, appVars, httpVars>>

\* the loop is over: releaseChanges is the result
MapReturn ==
    /\ mapPc = "loop"
    /\ idx > Len(commits)
    /\ mapPc' = "done"
    /\ UNCHANGED <<handler, commits, filterEmptyCommits, idx, processedCommits, releaseChanges>>
    /\ UNCHANGED <<relVars, chunkVars, tokenVars, appVars, httpVars>>

----------------------------------------------------------------------------
(* Inputs of the mapping loop *)

Frags ==
    { <<"F", "i", "x">>,
      <<" ">>,
      <<"a", "b", "c", "-", "1", "2">>,
      <<"A", "B", "C", "-", "5">>,
      <<"#", "9">>,
      <<"(", "#", "4", "2", ")">>,
      <<"A", "B", "C", "-">> }

Titles == { Concat(f) : f \in UNION { [1..k -> Frags] : k \in 0..MaxFrags } }

Bodies ==
    { <<>>,
      <<"\n", "A", "B", "C", "-", "1", "0", "0", " ", "x">>,
      <<"\n", "s", "e", "e", " ", "#", "7">> }

Author == <<"d", "e", "v">>

\* one commit with any title and body
RichCommits ==
    { [sha |-> <<"c", "c", "c", "c", "c", "c", "c", "1">>, message |-> t \o b, author |-> Author] :
        t \in Titles, b \in Bodies }

ShaA1 == <<"a", "a", "a", "a", "a", "a", "a", "1">>
ShaA2 == <<"a", "a", "a", "a", "a", "a", "a", "2">>
ShaB1 == <<"b", "b", "b", "b", "b", "b", "b", "1">>
MsgBoth == <<"F", "i", "x", " ", "(", "#", "4", "2", ")", "\n", "A", "B", "C", "-", "1", "0", "0">>
MsgIssue == <<"F", "i", "x", " ", "#", "9">>
MsgPlain == <<"F", "i", "x">>

\* commits of a longer comparison: ShaA1 and ShaA2 share their first 7 characters
PoolCommits ==
    { [sha |-> ShaA1, message |-> MsgBoth, author |-> Author],
      [sha |-> ShaA1, message |-> MsgPlain, author |-> Author],
      [sha |-> ShaA2, message |-> MsgIssue, author |-> Author],
      [sha |-> ShaA2, message |-> MsgPlain, author |-> Author],
      [sha |-> ShaB1, message |-> MsgIssue, author |-> Author],
      [sha |-> ShaB1, message |-> MsgBoth, author |-> Author] }

\* the text 'fixed abc-12 and ABC-5, see #9'
ExampleText ==
    <<"f", "i", "x", "e", "d", " ", "a", "b", "c", "-", "1", "2", " ", "a", "n", "d", " ",
      "A", "B", "C", "-", "5", ",", " ", "s", "e", "e", " ", "#", "9">>

\* a commit whose title is the example text, and one whose body is
ExampleCommits ==
    { [sha |-> ShaB1, message |-> ExampleText, author |-> Author],
      [sha |-> ShaB1, message |-> <<"F", "i", "x", "\n">> \o ExampleText, author |-> Author] }

CommitLists ==
    { <<c>> : c \in RichCommits \cup ExampleCommits } \cup UNION { [1..n -> PoolCommits] : n \in 0..MaxCommits }

RelIdle == releaseNumber = <<>> /\ relResult = [kind |-> "none"]
ChunkIdle == text = <<>> /\ maxLength = 0 /\ chunks = <<>> /\ chunkPc = "idle"

NoData == [allChanges |-> <<>>, releaseNumber |-> <<>>, channelId |-> <<>>, channelName |-> <<>>]
TokenIdle == data = NoData /\ tokenMax = 0 /\ token = <<>> /\ tokenPc = "idle"

NoRequest ==
    [text |-> <<>>, releaseNumber |-> <<>>, channel_id |-> <<>>, channel_name |-> <<>>,
     user_id |-> <<>>, customMessage |-> <<>>, filterEmptyCommits |-> TRUE]
NoComparison == [status |-> 200, commits |-> <<>>]
NoResult == [kind |-> "none"]
NoMessage == [blocks |-> <<>>]
NoState == [present |-> FALSE, values |-> <<>>]
AppQuiet ==
    /\ result = NoResult
    /\ message = NoMessage
    /\ state = NoState
    /\ outbox = <<>>
    /\ responses = <<>>
    /\ fetches = <<>>
AppIdle ==
    /\ op = "none"
    /\ request = NoRequest
    /\ comparison = NoComparison
    /\ AppQuiet
    /\ appPc = "idle"

\* no HTTP endpoint has been called: an empty environment, an empty Map
NoHttp == [kind |-> "none"]
HttpIdle ==
    /\ processEnv = NoHttp
    /\ clock = 0
    /\ requestCounts = <<>>
    /\ httpReq = NoHttp
    /\ httpRes = NoHttp
    /\ history = <<>>

InitMap ==
    /\ handler \in {"announce", "release"}
    /\ commits \in CommitLists
    /\ filterEmptyCommits \in (IF handler = "announce" THEN BOOLEAN ELSE {TRUE})
    /\ idx = 1
    /\ processedCommits = {}
    /\ releaseChanges = <<>>
    /\ mapPc = "loop"
    /\ RelIdle
    /\ ChunkIdle
    /\ TokenIdle
    /\ HttpIdle
    /\ AppIdle

MapIdle ==
    /\ handler = "announce"
    /\ commits = <<>>
    /\ filterEmptyCommits = TRUE
    /\ idx = 1
    /\ processedCommits = {}
    /\ releaseChanges = <<>>
    /\ mapPc = "idle"

NextMap == AnnounceCommit \/ ReleaseCommit \/ MapReturn

SpecMap == InitMap /\ [][NextMap]_vars

----------------------------------------------------------------------------
(* The previous release resolver *)

\* the value of a decimal digit
DigitValue(c) == (CHOOSE i \in DOMAIN Digits : Digits[i] = c) - 1

RECURSIVE DigitsValue(_, _)
\* the number written by the digits ds, after the digits whose value is acc
DigitsValue(ds, acc) ==
    IF ds = <<>> THEN acc ELSE DigitsValue(Tail(ds), 10 * acc + DigitValue(Head(ds)))

NaN == [nan |-> TRUE, val |-> 0]
Num(n) == [nan |-> FALSE, val |-> n]

RECURSIVE SkipSpaces(_)
SkipSpaces(s) == IF s # <<>> /\ IsSpace(Head(s)) THEN SkipSpaces(Tail(s)) ELSE s

\* parseInt(s, 10): leading whitespace, an optional sign, then the longest run of digits
parseInt(s) ==
    LET t == SkipSpaces(s)
        signed == t # <<>> /\ Head(t) \in {"-", "+"}
        u == IF signed THEN Tail(t) ELSE t
        e == DigitRunEnd(u, 1)
    IN IF e < 1 THEN NaN
       ELSE IF signed /\ Head(t) = "-" THEN Num(0 - DigitsValue(SubSeq(u, 1, e), 0))
       ELSE Num(DigitsValue(SubSeq(u, 1, e), 0))

RECURSIVE NatToString(_)
NatToString(n) ==
    IF n < 10 THEN <<Digits[n + 1]>> ELSE NatToString(n \div 10) \o <<Digits[(n % 10) + 1]>>

\* Number.prototype.toString of an integer or of NaN
NumberToString(v) ==
    IF v.nan THEN <<"N", "a", "N">>
    ELSE IF v.val < 0 THEN <<"-">> \o NatToString(0 - v.val)
    ELSE NatToString(v.val)

\* v - 1 in JavaScript
MinusOne(v) == IF v.nan THEN NaN ELSE Num(v.val - 1)

Includes(s, c) == \E i \in DOMAIN s : s[i] = c

Returned(v) == [kind |-> "return", value |-> v]
Thrown(e) == [kind |-> "throw", value |-> e]

\* mutant: release 1 is not refused
getPreviousRelease_NoUnderflow(release) ==
    IF Includes(release, ".")
    THEN LET parts == split(release, ".")
             minorVersion == parseInt(parts[2])
             majorVersion == parseInt(parts[1])
         IN IF Len(parts) > 1 /\ ~minorVersion.nan /\ minorVersion.val > 0
            THEN Returned(parts[1] \o <<".">> \o NumberToString(MinusOne(minorVersion)))
            ELSE Returned(NumberToString(MinusOne(majorVersion)))
    ELSE LET currentNumber == parseInt(release)
         IN IF currentNumber.nan THEN Thrown("Invalid release number format")
            ELSE IF currentNumber.val <= 0 THEN Thrown("Cannot determine previous release")
            ELSE Returned(NumberToString(MinusOne(currentNumber)))

getPreviousRelease(release) ==
    IF Includes(release, ".")
    THEN LET parts == split(release, ".")
             minorVersion == parseInt(parts[2])
             majorVersion == parseInt(parts[1])
         IN IF Len(parts) > 1 /\ ~minorVersion.nan /\ minorVersion.val > 0
            THEN Returned(parts[1] \o <<".">> \o NumberToString(MinusOne(minorVersion)))
            ELSE Returned(NumberToString(MinusOne(majorVersion)))
    ELSE LET currentNumber == parseInt(release)
         IN IF currentNumber.nan THEN Thrown("Invalid release number format")
            ELSE IF currentNumber.val <= 1 THEN Thrown("Cannot determine previous release")
            ELSE Returned(NumberToString(MinusOne(currentNumber)))

\* a caller resolves the previous release of releaseNumber
CallGetPreviousRelease ==
    /\ relResult.kind = "none"
    /\ relResult' = getPreviousRelease(releaseNumber)
    /\ UNCHANGED releaseNumber
    /\ UNCHANGED <<mapVars, chunkVars, tokenVars, appVars, httpVars>>

RelChars == {"0", "1", "2", "9", "a", ".", "-", " "}

\* '2.1.0', 'abc', '67' and '100'
ExampleReleases ==
    { <<"2", ".", "1", ".", "0">>, <<"a", "b", "c">>, <<"6", "7">>, <<"1", "0", "0">> }

ReleaseNumbers == UNION { [1..n -> RelChars] : n \in 0..MaxRelLen } \cup ExampleReleases

InitRel ==
    /\ releaseNumber \in ReleaseNumbers
    /\ relResult = [kind |-> "none"]
    /\ MapIdle
    /\ ChunkIdle
    /\ TokenIdle
    /\ HttpIdle
    /\ AppIdle

NextRel == CallGetPreviousRelease

SpecRel == InitRel /\ [][NextRel]_vars

----------------------------------------------------------------------------
(* The text chunker *)

Ellipsis == <<".", ".", ".">>

\* mutant: a line that starts a new chunk is lost
ChunkLine_DropLine(st, line, max) ==
    IF Len(st.currentChunk) + Len(line) + 1 > max
    THEN LET flushed == IF st.currentChunk # <<>>
                        THEN Append(st.chunks, trim(st.currentChunk))
                        ELSE st.chunks
         IN IF Len(line) > max
            THEN [chunks |-> Append(flushed, substring(line, 0, max - 3) \o Ellipsis),
                  currentChunk |-> <<>>]
            ELSE [chunks |-> flushed, currentChunk |-> <<>>]
    ELSE [chunks |-> st.chunks,
          currentChunk |-> st.currentChunk
                            \o (IF st.currentChunk # <<>> THEN <<"\n">> ELSE <<>>) \o line]

\* the body of the for..of loop of chunkTextForSlack
ChunkLine(st, line, max) ==
    IF Len(st.currentChunk) + Len(line) + 1 > max
    THEN LET flushed == IF st.currentChunk # <<>>
                        THEN Append(st.chunks, trim(st.currentChunk))
                        ELSE st.chunks
         IN IF Len(line) > max
            THEN [chunks |-> Append(flushed, substring(line, 0, max - 3) \o Ellipsis),
                  currentChunk |-> <<>>]
            ELSE [chunks |-> flushed, currentChunk |-> line]
    ELSE [chunks |-> st.chunks,
          currentChunk |-> st.currentChunk
                            \o (IF st.currentChunk # <<>> THEN <<"\n">> ELSE <<>>) \o line]

RECURSIVE ChunkRange(_, _, _, _, _)
\* the iterations of the for..of loop for the lines lo..hi
ChunkRange(st, lines, lo, hi, max) ==
    IF lo > hi THEN st
    ELSE IF lo = hi THEN ChunkLine(st, lines[lo], max)
    ELSE With(ChunkRange(st, lines, lo, (lo + hi) \div 2, max),
              LAMBDA half : ChunkRange(half, lines, (lo + hi) \div 2 + 1, hi, max))

\* the for..of loop over the lines
ChunkLines(st, lines, max) ==
    With(lines, LAMBDA ls : ChunkRange(st, ls, 1, Len(ls), max))

chunkTextForSlack(t, max) ==
    IF Len(t) <= max THEN <<t>>
    ELSE LET st == ChunkLines([chunks |-> <<>>, currentChunk |-> <<>>], split(t, "\n"), max)
         IN IF st.currentChunk # <<>> THEN Append(st.chunks, trim(st.currentChunk))
            ELSE st.chunks

\* a caller chunks text
CallChunkTextForSlack ==
    /\ chunkPc = "call"
    /\ chunks' = chunkTextForSlack(text, maxLength)
    /\ chunkPc' = "done"
    /\ UNCHANGED <<text, maxLength>>
    /\ UNCHANGED <<mapVars, relVars, tokenVars, appVars, httpVars>>

TextChars == {"a", "b", " ", "\n"}

Texts == UNION { [1..n -> TextChars] : n \in 0..MaxTextLen }

InitChunk ==
    /\ text \in Texts
    /\ maxLength \in 0..MaxChunkLen
    /\ chunks = <<>>
    /\ chunkPc = "call"
    /\ MapIdle
    /\ RelIdle
    /\ TokenIdle
    /\ HttpIdle
    /\ AppIdle

NextChunk == CallChunkTextForSlack

SpecChunk == InitChunk /\ [][NextChunk]_vars

----------------------------------------------------------------------------
(* What the claims about the mapping loop speak of, said without the loop *)

KeyPrefix == toUpperCase(JIRA_PROJECT) \o <<"-">>

\* a ticket key of the project starts at position i of t
KeyPrefixAt(t, i) ==
    /\ i + Len(KeyPrefix) <= Len(t)
    /\ t[i + Len(KeyPrefix) - 1] = "-"
    /\ toUpperCase(SubSeq(t, i, i + Len(KeyPrefix) - 1)) = KeyPrefix
    /\ (i = 1 \/ t[i - 1] \notin WordChars)

\* positions i..j of t hold a ticket key of the project, delimited by word boundaries
IsTicketKeyAt(t, i, j) ==
    /\ KeyPrefixAt(t, i)
    /\ i + Len(KeyPrefix) <= j /\ j <= Len(t)
    /\ \A k \in (i + Len(KeyPrefix))..j : t[k] \in DigitChars
    /\ (j = Len(t) \/ t[j + 1] \notin WordChars)

TicketKeyStarts(t) ==
    { i \in DOMAIN t : KeyPrefixAt(t, i) /\ \E j \in i..Len(t) : IsTicketKeyAt(t, i, j) }
HasTicketKey(t) == TicketKeyStarts(t) # {}
TicketKeyFrom(t, i) == SubSeq(t, i, CHOOSE j \in i..Len(t) : IsTicketKeyAt(t, i, j))
Least(S) == CHOOSE i \in S : \A k \in S : i <= k
FirstTicketKey(t) == toUpperCase(TicketKeyFrom(t, Least(TicketKeyStarts(t))))

\* positions of the '#' of the #NNN tokens of t
IssueTokenStarts(t) == { i \in DOMAIN t : t[i] = "#" /\ i < Len(t) /\ t[i + 1] \in DigitChars }
HasIssueToken(t) == IssueTokenStarts(t) # {}
\* the digits of the #NNN token whose '#' is at position i
IssueNumberFrom(t, i) ==
    SubSeq(t, i + 1, CHOOSE j \in (i + 1)..Len(t) :
                        /\ \A k \in (i + 1)..j : t[k] \in DigitChars
                        /\ (j = Len(t) \/ t[j + 1] \notin DigitChars))
FirstIssueNumber(t) == IssueNumberFrom(t, Least(IssueTokenStarts(t)))

Sha7(c) == SubSeq(c.sha, 1, IF Len(c.sha) < 7 THEN Len(c.sha) ELSE 7)
TextOf(i) == AllText(commits[i])
\* commit i is the first one of the input with its shortId
FirstOcc(i) == \A k \in 1..(i - 1) : Sha7(commits[k]) # Sha7(commits[i])
Referenced(i) == HasTicketKey(TextOf(i)) \/ HasIssueToken(TextOf(i))
keepUnreferenced == handler = "announce" /\ ~filterEmptyCommits
\* the commits that the output shows
ShownSet == { i \in DOMAIN commits : FirstOcc(i) /\ (keepUnreferenced \/ Referenced(i)) }
\* the place in the output of the change of shown commit i
RankIn(S, i) == Cardinality({k \in S : k <= i})

EndsWith(s, p) == Len(s) >= Len(p) /\ SubSeq(s, Len(s) - Len(p) + 1, Len(s)) = p

TicketLinePrefix(key) == <<Bullet, " ", "<">> \o JiraUrl(key) \o <<"|">>
IssueLinkSuffix(n) == <<" ", "<">> \o GithubUrl(n) \o <<"|", "(", "#">> \o n \o <<")", ">">>

\* C1: a commit whose text holds a ticket key and a #NNN token yields a Ticket change
\* whose primary key is the first ticket key, uppercased, and whose secondary key is
\* the first issue number; an Issue change comes only from a text without ticket key.
C1_TicketPriority ==
    mapPc = "done" =>
        LET shown == ShownSet
        IN /\ Len(releaseChanges) = Cardinality(shown)
           /\ \A i \in shown :
                LET t == TextOf(i)
                    ch == releaseChanges[RankIn(shown, i)]
                    ticket == HasTicketKey(t)
                IN /\ (ticket /\ HasIssueToken(t)) =>
                        IF handler = "announce"
                        THEN /\ ch.type = "jira"
                             /\ ch.key = FirstTicketKey(t)
                             /\ ch.githubKey = FirstIssueNumber(t)
                             /\ ch.commitSha = Sha7(commits[i])
                        ELSE /\ StartsWith(ch, TicketLinePrefix(FirstTicketKey(t)))
                             /\ EndsWith(ch, <<">">> \o IssueLinkSuffix(FirstIssueNumber(t)))
                   /\ IF handler = "announce"
                      THEN ch.type = "github" => ~ticket
                      ELSE ~StartsWith(ch, <<Bullet, " ", "<">>) => ~ticket

\* a retained commit with a ticket key and an issue token
BothRefs(i) == FirstOcc(i) /\ HasTicketKey(TextOf(i)) /\ HasIssueToken(TextOf(i))

\* C1 witness: the loop has ended after mapping a commit with both kinds of reference
\* whose first reference in the text is the issue token
C1_Witness ==
    /\ mapPc = "done"
    /\ \E i \in DOMAIN commits :
          /\ BothRefs(i)
          /\ Least(IssueTokenStarts(TextOf(i))) < Least(TicketKeyStarts(TextOf(i)))
          /\ Cardinality(TicketKeyStarts(TextOf(i))) > 1

\* the kind of change the text of commit i calls for
KindOf(i) ==
    IF HasTicketKey(TextOf(i)) THEN "jira"
    ELSE IF HasIssueToken(TextOf(i)) THEN "github"
    ELSE "plain"

\* the k-th element of a finite set of integers, in increasing order
Nth(S, k) == CHOOSE i \in S : Cardinality({m \in S : m <= i}) = k

\* C2: the loop skips every commit whose 7-character shortId was already seen: each
\* shortId yields at most one change, taken from its first occurrence; the output is
\* no longer than the number of distinct shortIds and keeps the input order.
C2_Dedup ==
    mapPc = "done" =>
        LET shown == ShownSet
        IN /\ Len(releaseChanges) <= Cardinality({ Sha7(commits[i]) : i \in DOMAIN commits })
           /\ Len(releaseChanges) = Cardinality(shown)
           /\ \A k \in DOMAIN releaseChanges :
                LET i == Nth(shown, k)
                IN IF handler = "announce"
                   THEN /\ releaseChanges[k].commitSha = Sha7(commits[i])
                        /\ releaseChanges[k].type = KindOf(i)
                        /\ \A m \in DOMAIN releaseChanges :
                              m # k => releaseChanges[m].commitSha # releaseChanges[k].commitSha
                   ELSE StartsWith(releaseChanges[k], <<Bullet, " ", "<">>) <=> KindOf(i) = "jira"

\* C2 witness: the loop has ended on an input where a later commit repeats the
\* shortId of an earlier one, with another sha and another message
C2_Witness ==
    /\ mapPc = "done"
    /\ \E i, j \in DOMAIN commits :
          /\ i < j
          /\ Sha7(commits[i]) = Sha7(commits[j])
          /\ commits[i].sha # commits[j].sha
          /\ KindOf(i) # KindOf(j)
          /\ KindOf(j) # "plain"
    /\ Len(releaseChanges) >= 2

OneStrip(t) == IF StripParenRef(t) # t THEN StripParenRef(t) ELSE StripBareRef(t)

\* C4: the summary of a Ticket or Issue change is the title with one trailing issue
\* decoration removed, the removal being applied only once (at most one #NNN token
\* leaves the title); a title without trailing decoration is unchanged.
C4_SingleRemoval ==
    (mapPc = "done" /\ handler = "announce") =>
        LET shown == ShownSet
        IN \A i \in shown : Referenced(i) =>
              releaseChanges[RankIn(shown, i)].summary = OneStrip(CommitTitle(commits[i]))

\* the ticket keys of t, one per match, uppercased, in order of appearance
TicketRefs(t) ==
    LET S == TicketKeyStarts(t)
    IN [k \in 1..Cardinality(S) |-> toUpperCase(TicketKeyFrom(t, Nth(S, k)))]

\* the #NNN tokens of t, one per match, in order of appearance
IssueRefs(t) ==
    LET S == IssueTokenStarts(t)
    IN [k \in 1..Cardinality(S) |-> <<"#">> \o IssueNumberFrom(t, Nth(S, k))]

NoRepeat(q) == \A a, b \in DOMAIN q : a # b => q[a] # q[b]

\* C5 as stated: the ticket keys come uppercased in order of first appearance with no
\* key twice, and the issue keys are bare digit strings without '#'.
C5_Collapsed ==
    (mapPc = "done" /\ handler = "announce") =>
        \A k \in DOMAIN releaseChanges :
            /\ releaseChanges[k].type = "jira" => NoRepeat(releaseChanges[k].allJiraRefs)
            /\ (releaseChanges[k].type # "plain" /\ releaseChanges[k].allGithubRefs # Absent) =>
                  \A m \in DOMAIN releaseChanges[k].allGithubRefs :
                      \A n \in DOMAIN releaseChanges[k].allGithubRefs[m] :
                          releaseChanges[k].allGithubRefs[m][n] \in DigitChars

\* C5 as amended: the ticket keys are all the matches of the project key pattern,
\* case-insensitive, uppercased, in order of appearance, a repeated key repeated; the
\* issue references are all the #NNN tokens in order of appearance, the issue key being
\* the digits of the first; a text without match yields neither.
C5_AllMatches ==
    (mapPc = "done" /\ handler = "announce") =>
        LET shown == ShownSet
        IN /\ Len(releaseChanges) = Cardinality(shown)
           /\ \A i \in shown :
                LET t == TextOf(i)
                    ch == releaseChanges[RankIn(shown, i)]
                IN /\ ch.type = "jira" <=> HasTicketKey(t)
                   /\ ch.type = "jira" =>
                        /\ ch.allJiraRefs = TicketRefs(t)
                        /\ ch.allGithubRefs = (IF HasIssueToken(t) THEN IssueRefs(t) ELSE Absent)
                        /\ ch.githubKey = (IF HasIssueToken(t) THEN FirstIssueNumber(t) ELSE Absent)
                   /\ ch.type = "github" =>
                        /\ HasIssueToken(t)
                        /\ ch.allGithubRefs = IssueRefs(t)
                        /\ ch.key = FirstIssueNumber(t)
                   /\ ch.type = "plain" => (~HasTicketKey(t) /\ ~HasIssueToken(t))
                   /\ commits[i].message = <<"F", "i", "x", "\n">> \o ExampleText =>
                        /\ ch.allJiraRefs = << <<"A", "B", "C", "-", "1", "2">>,
                                               <<"A", "B", "C", "-", "5">> >>
                        /\ ch.allGithubRefs = << <<"#", "9">> >>
                        /\ ch.githubKey = <<"9">>

\* C5 witness: the extraction has run over a text where a lowercase key comes twice,
\* between other keys and issue tokens
C5_Witness ==
    /\ mapPc = "done" /\ handler = "announce"
    /\ \E k \in DOMAIN releaseChanges :
          /\ releaseChanges[k].type = "jira"
          /\ ~NoRepeat(releaseChanges[k].allJiraRefs)
          /\ Cardinality(Range(releaseChanges[k].allJiraRefs)) > 1
          /\ releaseChanges[k].allGithubRefs # Absent
          /\ \E n \in DOMAIN commits[1].message : commits[1].message[n] = "b"

----------------------------------------------------------------------------
(* What the claims about the release resolver speak of *)

Dotted(r) == \E i \in DOMAIN r : r[i] = "."
Segments(r) == split(r, ".")

\* the text after the leading whitespace of s
Unpadded(s) ==
    IF \A i \in DOMAIN s : s[i] \in SpaceChars THEN <<>>
    ELSE SubSeq(s, CHOOSE i \in DOMAIN s :
                       s[i] \notin SpaceChars /\ \A k \in 1..(i - 1) : s[k] \in SpaceChars,
                Len(s))
Unsigned(s) == IF s # <<>> /\ s[1] \in {"-", "+"} THEN SubSeq(s, 2, Len(s)) ELSE s
\* the leading digits of s, after whitespace and sign
LeadingDigits(s) ==
    LET u == Unsigned(Unpadded(s))
    IN SubSeq(u, 1, Cardinality({ i \in DOMAIN u : \A k \in 1..i : u[k] \in DigitChars }))
\* s parses as an integer
Parses(s) == LeadingDigits(s) # <<>>
RECURSIVE Pow10(_)
Pow10(n) == IF n = 0 THEN 1 ELSE 10 * Pow10(n - 1)
Sum3(f, n) == LET g[k \in 0..n] == IF k = 0 THEN 0 ELSE g[k - 1] + f[k] IN g[n]
\* the integer s parses to
IntegerOf(s) ==
    LET d == LeadingDigits(s)
        v == Sum3([k \in 1..Len(d) |->
                     ((CHOOSE m \in 0..9 : Digits[m + 1] = d[k]) * Pow10(Len(d) - k))], Len(d))
    IN IF Unpadded(s)[1] = "-" THEN 0 - v ELSE v

\* v is the decimal writing of the integer n
IsDecimalOf(v, n) ==
    /\ v # <<>>
    /\ IF n < 0 THEN v[1] = "-" /\ Len(v) > 1 ELSE v[1] # "-"
    /\ LET d == IF n < 0 THEN SubSeq(v, 2, Len(v)) ELSE v
       IN /\ \A k \in DOMAIN d : d[k] \in DigitChars
          /\ (Len(d) > 1 => d[1] # "0")
          /\ Parses(v) /\ IntegerOf(v) = n

Resolved == relResult.kind # "none"

\* C6: for a release id with a '.', the result is '<first>.<second-1>' when the second
\* segment parses as an integer > 0, and otherwise the first segment decremented by
\* one, written as a bare integer; '2.1.0' gives '2.0' and '2.0' gives '1'.
C6_DottedPrevious ==
    (Resolved /\ Dotted(releaseNumber)) =>
        LET first == Segments(releaseNumber)[1]
            second == Segments(releaseNumber)[2]
        IN /\ relResult.kind = "return"
           /\ IF Parses(second) /\ IntegerOf(second) > 0
              THEN \E v \in {NatToString(IntegerOf(second) - 1)} :
                      /\ IsDecimalOf(v, IntegerOf(second) - 1)
                      /\ relResult.value = first \o <<".">> \o v
              ELSE /\ \A k \in DOMAIN relResult.value :
                          relResult.value[k] \in DigitChars \cup {"-"}
                   /\ Parses(first)
                   /\ IsDecimalOf(relResult.value, IntegerOf(first) - 1)

\* C7: for a release id without '.', the call fails with InvalidFormat when the id does
\* not parse as an integer, fails with Underflow when it parses to n <= 1, and otherwise
\* returns the decimal string of n - 1; a failing call returns no value.
C7_FlatPrevious ==
    (Resolved /\ ~Dotted(releaseNumber)) =>
        /\ ~Parses(releaseNumber) =>
              relResult = [kind |-> "throw", value |-> "Invalid release number format"]
        /\ (Parses(releaseNumber) /\ IntegerOf(releaseNumber) <= 1) =>
              relResult = [kind |-> "throw", value |-> "Cannot determine previous release"]
        /\ (Parses(releaseNumber) /\ IntegerOf(releaseNumber) > 1) =>
              /\ relResult.kind = "return"
              /\ IsDecimalOf(relResult.value, IntegerOf(releaseNumber) - 1)
        /\ releaseNumber = <<"1">> => relResult.value = "Cannot determine previous release"
        /\ releaseNumber = <<"a", "b", "c">> => relResult.value = "Invalid release number format"
        /\ releaseNumber = <<"2">> => relResult = [kind |-> "return", value |-> <<"1">>]

\* C7 witness: release '1' was refused
C7_Witness ==
    /\ releaseNumber = <<"1">>
    /\ relResult.kind = "throw"

----------------------------------------------------------------------------
(* What the claims about the chunker speak of *)

Chunked == chunkPc = "done"

\* C8: every chunk returned by chunk(text, maxLength) has length <= maxLength, the
\* hard-truncated chunk of an over-long line included.
C8_ChunkBound ==
    Chunked => \A k \in DOMAIN chunks : Len(chunks[k]) <= maxLength

\* the lines of the text, an over-long line replaced by its hard-truncated form
ExpectedLines ==
    LET lines == split(text, "\n")
    IN [k \in DOMAIN lines |->
          IF Len(lines[k]) > maxLength
          THEN SubSeq(lines[k], 1, IF maxLength > 3 THEN maxLength - 3 ELSE 0) \o <<".", ".", ".">>
          ELSE lines[k]]

Stripped(s) ==
    LET keep == { i \in DOMAIN s : s[i] \notin SpaceChars }
    IN IF keep = {} THEN <<>>
       ELSE SubSeq(s, CHOOSE i \in keep : \A k \in keep : i <= k,
                      CHOOSE i \in keep : \A k \in keep : k <= i)
NonBlank(s) == s # <<>>
\* the lines of s that are not blank, each without the whitespace around it
BareLines(s) ==
    LET lines == split(s, "\n")
    IN SelectSeq([k \in DOMAIN lines |-> Stripped(lines[k])], NonBlank)

C10_NoEmptyChunk ==
    Chunked =>
        IF Len(text) <= maxLength THEN chunks = <<text>>
        ELSE \A k \in DOMAIN chunks : chunks[k] # <<>>

----------------------------------------------------------------------------
(* JSON.stringify and JSON.parse, for the values the button carries *)

\* the two UTF-16 code units of the rocket emoji, the warning sign and its variation selector
RocketHi == "U+D83D"
RocketLo == "U+DE80"
WarningSign == "U+26A0"
VariationSelector == "U+FE0F"

\* a JavaScript value as JSON sees it
JString(s) == [t |-> "string", v |-> s]
JNumber(n) == [t |-> "number", v |-> n]
JBool(b) == [t |-> "boolean", v |-> b]
JArray(a) == [t |-> "array", v |-> a]
\* an object is the sequence of its properties, in insertion order
JObject(props) == [t |-> "object", v |-> props]
Prop(k, j) == [key |-> k, val |-> j]

\* how JSON.stringify writes one character of a string
JsonEscapeChar(c) ==
    IF c = "\"" THEN <<"\\", "\"">>
    ELSE IF c = "\\" THEN <<"\\", "\\">>
    ELSE IF c = "\n" THEN <<"\\", "n">>
    ELSE IF c = "\r" THEN <<"\\", "r">>
    ELSE IF c = "\t" THEN <<"\\", "t">>
    ELSE <<c>>

RECURSIVE JsonEscapeRange(_, _, _)
\* the characters lo..hi of s as JSON.stringify writes them
JsonEscapeRange(s, lo, hi) ==
    IF lo > hi THEN <<>>
    ELSE IF lo = hi THEN JsonEscapeChar(s[lo])
    ELSE LET mid == (lo + hi) \div 2
         IN JsonEscapeRange(s, lo, mid) \o JsonEscapeRange(s, mid + 1, hi)

\* JSON.stringify of a string
JsonQuote(s) == <<"\"">> \o JsonEscapeRange(s, 1, Len(s)) \o <<"\"">>

RECURSIVE JsonStringify(_)
\* JSON.stringify(value), without indentation
JsonStringify(j) ==
    IF j.t = "string" THEN JsonQuote(j.v)
    ELSE IF j.t = "number" THEN NumberToString(Num(j.v))
    ELSE IF j.t = "boolean" THEN (IF j.v THEN <<"t", "r", "u", "e">> ELSE <<"f", "a", "l", "s", "e">>)
    ELSE IF j.t = "array"
    THEN <<"[">> \o JoinWith([i \in DOMAIN j.v |-> JsonStringify(j.v[i])], <<",">>) \o <<"]">>
    ELSE <<"{">>
          \o JoinWith([i \in DOMAIN j.v |->
                         JsonQuote(j.v[i].key) \o <<":">> \o JsonStringify(j.v[i].val)], <<",">>)
          \o <<"}">>

\* the character at position k of s is written after an odd run of backslashes that
\* starts at lo or later: it is the second character of an escape
JsonEscaped(s, lo, k) ==
    /\ k > lo
    /\ s[k - 1] = "\\"
    /\ LET a == CHOOSE a \in lo..(k - 1) :
                    /\ \A m \in a..(k - 1) : s[m] = "\\"
                    /\ (a = lo \/ s[a - 1] # "\\")
       IN (k - a) % 2 = 1

\* the position of the quote that closes the string opened at position i
JsonStringEnd(s, i) ==
    LET Q == { j \in (i + 1)..Len(s) : s[j] = "\"" /\ ~JsonEscaped(s, i + 1, j) }
    IN CHOOSE j \in Q : \A k \in Q : j <= k

\* the character an escape stands for
JsonUnescapeChar(c) ==
    IF c = "n" THEN "\n"
    ELSE IF c = "r" THEN "\r"
    ELSE IF c = "t" THEN "\t"
    ELSE c

RECURSIVE JsonUnescapeRange(_, _, _, _)
\* the characters that positions lo..hi of a JSON string body stand for
JsonUnescapeRange(s, a, lo, hi) ==
    IF lo > hi THEN <<>>
    ELSE IF lo = hi
    THEN IF JsonEscaped(s, a, lo) THEN <<JsonUnescapeChar(s[lo])>>
         ELSE IF s[lo] = "\\" THEN <<>>
         ELSE <<s[lo]>>
    ELSE LET mid == (lo + hi) \div 2
         IN JsonUnescapeRange(s, a, lo, mid) \o JsonUnescapeRange(s, a, mid + 1, hi)

Parsed(v, n) == [val |-> v, next |-> n]

\* the JSON string that starts at position i of s
JsonParseString(s, i) ==
    LET e == JsonStringEnd(s, i)
    IN Parsed(JString(JsonUnescapeRange(s, i + 1, i + 1, e - 1)), e + 1)

\* the JSON number that starts at position i of s (an integer)
JsonParseNumber(s, i) ==
    LET d == IF s[i] = "-" THEN i + 1 ELSE i
        e == DigitRunEnd(s, d)
        n == DigitsValue(SubSeq(s, d, e), 0)
    IN Parsed(JNumber(IF s[i] = "-" THEN 0 - n ELSE n), e + 1)

RECURSIVE JsonParseValue(_, _), JsonParseElements(_, _), JsonParseMembers(_, _)
\* the JSON value that starts at position i of s
JsonParseValue(s, i) ==
    IF s[i] = "\"" THEN JsonParseString(s, i)
    ELSE IF s[i] = "[" THEN
        IF s[i + 1] = "]" THEN Parsed(JArray(<<>>), i + 2)
        ELSE LET r == JsonParseElements(s, i + 1) IN Parsed(JArray(r.val), r.next)
    ELSE IF s[i] = "{" THEN
        IF s[i + 1] = "}" THEN Parsed(JObject(<<>>), i + 2)
        ELSE LET r == JsonParseMembers(s, i + 1) IN Parsed(JObject(r.val), r.next)
    ELSE IF s[i] = "t" THEN Parsed(JBool(TRUE), i + 4)
    ELSE IF s[i] = "f" THEN Parsed(JBool(FALSE), i + 5)
    ELSE JsonParseNumber(s, i)

\* the elements of an array of strings, from position i to the closing bracket: the
\* strings lie between the quotes that are not escaped, up to the first one that closes
\* a string and is followed by the bracket
JsonParseStrings(s, i) ==
    With(Sorted({ j \in i..Len(s) : s[j] = "\"" /\ ~JsonEscaped(s, i, j) }),
         LAMBDA q :
            LET last == CHOOSE n \in 1..(Len(q) \div 2) :
                            /\ s[q[2 * n] + 1] = "]"
                            /\ \A m \in 1..(n - 1) : s[q[2 * m] + 1] # "]"
            IN Parsed([e \in 1..last |->
                         JString(JsonUnescapeRange(s, q[2 * e - 1] + 1, q[2 * e - 1] + 1,
                                                   q[2 * e] - 1))],
                      q[2 * last] + 2))

\* the elements of an array, from position i to the closing bracket
JsonParseElements(s, i) ==
    IF s[i] = "\"" THEN JsonParseStrings(s, i)
    ELSE LET r == JsonParseValue(s, i)
         IN IF s[r.next] = ","
            THEN LET rest == JsonParseElements(s, r.next + 1)
                 IN Parsed(<<r.val>> \o rest.val, rest.next)
            ELSE Parsed(<<r.val>>, r.next + 1)

\* the properties of an object, from position i to the closing brace
JsonParseMembers(s, i) ==
    LET k == JsonParseString(s, i)
        r == JsonParseValue(s, k.next + 1)
        p == Prop(k.val.v, r.val)
    IN IF s[r.next] = ","
       THEN LET rest == JsonParseMembers(s, r.next + 1)
            IN Parsed(<<p>> \o rest.val, rest.next)
       ELSE Parsed(<<p>>, r.next + 1)

\* JSON.parse of a text that JSON.stringify wrote
JsonParse(s) == JsonParseValue(s, 1).val

\* object[key] is set
HasProp(obj, key) == \E i \in DOMAIN obj.v : obj.v[i].key = key
\* object[key]
GetProp(obj, key) ==
    obj.v[CHOOSE i \in DOMAIN obj.v :
            obj.v[i].key = key /\ \A m \in DOMAIN obj.v : obj.v[m].key = key => m <= i].val
\* the strings of an array of strings
Strings(arr) == [i \in DOMAIN arr.v |-> arr.v[i].v]

----------------------------------------------------------------------------
(* The button value codec *)

\* the object passed to createSafeButtonValue by the /release command
ButtonData(d) ==
    JObject(<<Prop(<<"a", "l", "l", "C", "h", "a", "n", "g", "e", "s">>, JArray([i \in DOMAIN d.allChanges |-> JString(d.allChanges[i])])),
              Prop(<<"r", "e", "l", "e", "a", "s", "e", "N", "u", "m", "b", "e", "r">>, JString(d.releaseNumber)),
              Prop(<<"c", "h", "a", "n", "n", "e", "l", "I", "d">>, JString(d.channelId)),
              Prop(<<"c", "h", "a", "n", "n", "e", "l", "N", "a", "m", "e">>, JString(d.channelName))>>)

\* mutant: the digest is taken from the first change line only
Simplified_FirstLineHash(d) ==
    JObject(<<Prop(<<"r", "e", "l", "e", "a", "s", "e", "N", "u", "m", "b", "e", "r">>, JString(d.releaseNumber)),
              Prop(<<"c", "h", "a", "n", "n", "e", "l", "I", "d">>, JString(d.channelId)),
              Prop(<<"c", "h", "a", "n", "n", "e", "l", "N", "a", "m", "e">>, JString(d.channelName)),
              Prop(<<"c", "h", "a", "n", "g", "e", "C", "o", "u", "n", "t">>, JNumber(Len(d.allChanges))),
              Prop(<<"s", "i", "m", "p", "l", "i", "f", "i", "e", "d">>, JBool(TRUE)),
              Prop(<<"c", "h", "a", "n", "g", "e", "s", "H", "a", "s", "h">>,
                   JString(IF d.allChanges = <<>> THEN <<>>
                           ELSE substring(d.allChanges[1], 0, 50)))>>)

\* the simplified object of createSafeButtonValue
Simplified(d) ==
    JObject(<<Prop(<<"r", "e", "l", "e", "a", "s", "e", "N", "u", "m", "b", "e", "r">>, JString(d.releaseNumber)),
              Prop(<<"c", "h", "a", "n", "n", "e", "l", "I", "d">>, JString(d.channelId)),
              Prop(<<"c", "h", "a", "n", "n", "e", "l", "N", "a", "m", "e">>, JString(d.channelName)),
              Prop(<<"c", "h", "a", "n", "g", "e", "C", "o", "u", "n", "t">>, JNumber(Len(d.allChanges))),
              Prop(<<"s", "i", "m", "p", "l", "i", "f", "i", "e", "d">>, JBool(TRUE)),
              Prop(<<"c", "h", "a", "n", "g", "e", "s", "H", "a", "s", "h">>, JString(substring(Concat(d.allChanges), 0, 50)))>>)

createSafeButtonValue(d, max) ==
    LET jsonString == JsonStringify(ButtonData(d))
    IN IF Len(jsonString) <= max THEN jsonString
       ELSE JsonStringify(Simplified(d))

\* the default of the parameter maxLength of createSafeButtonValue
ButtonValueMax == 1900

\* a caller encodes data
CallCreateSafeButtonValue ==
    /\ tokenPc = "call"
    /\ token' = createSafeButtonValue(data, tokenMax)
    /\ tokenPc' = "done"
    /\ UNCHANGED <<data, tokenMax>>
    /\ UNCHANGED <<mapVars, relVars, chunkVars, appVars, httpVars>>

\* commits whose /release lines the button carries: a ticket with an issue, an issue whose
\* title holds a quote and a backslash, an issue
TokenCommits ==
    { [sha |-> ShaA1, message |-> MsgBoth, author |-> Author],
      [sha |-> ShaA2, message |-> <<"s", "a", "y", " ", "\"", "h", "i", "\"", " ", "\\", " ", "#", "9">>, author |-> Author],
      [sha |-> ShaB1, message |-> MsgIssue, author |-> Author] }

\* the title of a commit that fills n characters
LongTitle(n) == [i \in 1..n |-> "x"]

\* a commit whose change line alone is longer than the limit of the button value
LongCommit ==
    [sha |-> ShaB1, message |-> LongTitle(ButtonValueMax) \o <<" ", "#", "7">>, author |-> Author]

TokenLines == { ReleaseLines(c)[1] : c \in TokenCommits }

TokenChanges ==
    UNION { [1..n -> TokenLines] : n \in 0..MaxTokenChanges }
    \cup { ReleaseLines(LongCommit), <<ReleaseLines(LongCommit)[1], ReleaseLines(LongCommit)[1]>> }

\* a release number as long as the limit of the button value
LongRelease == [i \in 1..ButtonValueMax |-> "9"]

TokenChannels ==
    { [id |-> <<"C", "1">>, name |-> <<"g", "e", "n", "e", "r", "a", "l">>],
      [id |-> <<"D", "1">>,
       name |-> <<"d", "i", "r", "e", "c", "t", "m", "e", "s", "s", "a", "g", "e">>] }

TokenData ==
    { [allChanges |-> ch, releaseNumber |-> r, channelId |-> c.id, channelName |-> c.name] :
        ch \in TokenChanges,
        r \in { <<"6", "7">>, <<"2", ".", "1", ".", "0">> },
        c \in TokenChannels }
    \cup
    { [allChanges |-> ch, releaseNumber |-> LongRelease, channelId |-> c.id,
       channelName |-> c.name] :
        ch \in { <<>>, ReleaseLines(LongCommit) }, c \in TokenChannels }

InitToken ==
    /\ data \in TokenData
    /\ tokenMax \in {ButtonValueMax, 0}
                      \cup { Len(JsonStringify(ButtonData(data))) + k : k \in {0 - 1, 0, 1} }
    /\ token = <<>>
    /\ tokenPc = "call"
    /\ MapIdle
    /\ RelIdle
    /\ ChunkIdle
    /\ AppIdle
    /\ HttpIdle

NextToken == CallCreateSafeButtonValue

SpecToken == InitToken /\ [][NextToken]_vars

----------------------------------------------------------------------------
(* What the claims about the button value codec speak of *)

Encoded == tokenPc = "done"

\* the total length of the first n lines
LengthUpTo(lines, n) ==
    LET g[k \in 0..n] == IF k = 0 THEN 0 ELSE g[k - 1] + Len(lines[k]) IN g[n]

\* the k-th character of the lines written one after the other
CharOfLines(lines, k) ==
    LET j == CHOOSE j \in DOMAIN lines : LengthUpTo(lines, j - 1) < k /\ k <= LengthUpTo(lines, j)
    IN lines[j][k - LengthUpTo(lines, j - 1)]

\* the first n characters of the lines written one after the other
DigestOf(lines, n) ==
    LET total == LengthUpTo(lines, Len(lines))
    IN [k \in 1..(IF total < n THEN total ELSE n) |-> CharOfLines(lines, k)]

\* the keys of an object
KeysOf(obj) == { obj.v[i].key : i \in DOMAIN obj.v }

\* C11: createSafeButtonValue returns the full serialisation of {changes, releaseId,
\* destination} whenever its size is <= the limit: it decodes to the same changes, release
\* and destination; otherwise it returns a reduced token with simplified = true, the
\* release and the destination, changeCount = number of changes, a digest equal to the
\* first 50 characters of the concatenated change lines, and no change list.
C11_FullOrReduced ==
    Encoded =>
        LET full == JsonStringify(ButtonData(data))
            obj == JsonParse(token)
        IN /\ GetProp(obj, <<"r", "e", "l", "e", "a", "s", "e", "N", "u", "m", "b", "e", "r">>).v = data.releaseNumber
           /\ GetProp(obj, <<"c", "h", "a", "n", "n", "e", "l", "I", "d">>).v = data.channelId
           /\ GetProp(obj, <<"c", "h", "a", "n", "n", "e", "l", "N", "a", "m", "e">>).v = data.channelName
           /\ IF Len(full) <= tokenMax
              THEN /\ token = full
                   /\ KeysOf(obj) = {<<"a", "l", "l", "C", "h", "a", "n", "g", "e", "s">>, <<"r", "e", "l", "e", "a", "s", "e", "N", "u", "m", "b", "e", "r">>, <<"c", "h", "a", "n", "n", "e", "l", "I", "d">>, <<"c", "h", "a", "n", "n", "e", "l", "N", "a", "m", "e">>}
                   /\ Strings(GetProp(obj, <<"a", "l", "l", "C", "h", "a", "n", "g", "e", "s">>)) = data.allChanges
              ELSE /\ KeysOf(obj) = {<<"r", "e", "l", "e", "a", "s", "e", "N", "u", "m", "b", "e", "r">>, <<"c", "h", "a", "n", "n", "e", "l", "I", "d">>, <<"c", "h", "a", "n", "n", "e", "l", "N", "a", "m", "e">>,
                                     <<"c", "h", "a", "n", "g", "e", "C", "o", "u", "n", "t">>, <<"s", "i", "m", "p", "l", "i", "f", "i", "e", "d">>, <<"c", "h", "a", "n", "g", "e", "s", "H", "a", "s", "h">>}
                   /\ GetProp(obj, <<"s", "i", "m", "p", "l", "i", "f", "i", "e", "d">>).v = TRUE
                   /\ GetProp(obj, <<"c", "h", "a", "n", "g", "e", "C", "o", "u", "n", "t">>).v = Len(data.allChanges)
                   /\ GetProp(obj, <<"c", "h", "a", "n", "g", "e", "s", "H", "a", "s", "h">>).v = DigestOf(data.allChanges, 50)

\* C11 witness: under the default limit, a value too large was reduced, its digest running
\* over more than one change line
C11_Witness ==
    /\ Encoded
    /\ tokenMax = ButtonValueMax
    /\ Len(data.allChanges) >= 2
    /\ Len(JsonStringify(ButtonData(data))) > tokenMax
    /\ HasProp(JsonParse(token), <<"s", "i", "m", "p", "l", "i", "f", "i", "e", "d">>)

\* C12: every token returned by createSafeButtonValue has size <= the limit, on the full
\* path and on the reduced path, whatever the changes, the release id and the destination.
C12_TokenBound ==
    Encoded => Len(token) <= tokenMax

----------------------------------------------------------------------------
(* The /release command: its preview message *)

CheckMark == "U+2705"
CrossMark == "U+274C"

\* the default of the parameter maxLength of chunkTextForSlack
ChunkMax == 2900
\* the most changes that get a checkbox
maxChangesToShowLimit == 30
\* the most options of one checkbox group
maxOptionsPerGroup == 10
\* the most characters of the text of an option
OptionTextMax == 75
\* the most words of the description of an option
OptionWords == 4

\* p occurs in s at position i
OccursAt(s, p, i) == i >= 1 /\ i + Len(p) - 1 <= Len(s) /\ SubSeq(s, i, i + Len(p) - 1) = p
\* the positions where p occurs in s
Occurrences(s, p) == { i \in 1..(Len(s) - Len(p) + 1) : OccursAt(s, p, i) }
\* String.prototype.includes
IncludesText(s, p) == Occurrences(s, p) # {}
\* the least element of a non-empty set of integers
Min(S) == CHOOSE i \in S : \A k \in S : i <= k

\* the characters that '.' of a regular expression does not match
LineTerminators == {"\n", "\r"}

\* commandText.match(/(?:\/release\s+)?(.+)/)[1].trim() for a trimmed, non-empty commandText
ReleaseNumberOf(commandText) ==
    LET prefix == <<"/", "r", "e", "l", "e", "a", "s", "e">>
        n == Len(prefix)
        \* where the group (.+) starts when the optional prefix takes part in the match
        afterPrefix ==
            { k \in (n + 2)..Len(commandText) :
                /\ \A m \in (n + 1)..(k - 1) : IsSpace(commandText[m])
                /\ commandText[k] \notin LineTerminators }
        start == IF StartsWith(commandText, prefix) /\ afterPrefix # {}
                 THEN CHOOSE k \in afterPrefix : \A m \in afterPrefix : m <= k
                 ELSE 1
        stops == { k \in start..Len(commandText) : commandText[k] \in LineTerminators }
        end == IF stops = {} THEN Len(commandText) ELSE Min(stops) - 1
    IN trim(SubSeq(commandText, start, end))

\* a block of a Slack message
NoAccessory == [type |-> "none", action_id |-> <<>>, options |-> <<>>]
Section(t) == [type |-> "section", text |-> t, accessory |-> NoAccessory, elements |-> <<>>]
Divider == [type |-> "divider", text |-> <<>>, accessory |-> NoAccessory, elements |-> <<>>]
Checkboxes(t, id, opts) ==
    [type |-> "section", text |-> t,
     accessory |-> [type |-> "checkboxes", action_id |-> id, options |-> opts],
     elements |-> <<>>]
Actions(buttons) ==
    [type |-> "actions", text |-> <<>>, accessory |-> NoAccessory, elements |-> buttons]
Button(id, v) == [action_id |-> id, value |-> v]

\* the first two lines of an announcement: '*Deploying to prod*' and the branch
AnnouncementHeader(release) ==
    <<"*", "D", "e", "p", "l", "o", "y", "i", "n", "g", " ", "t", "o", " ", "p", "r", "o", "d", "*", " ", RocketHi, RocketLo, "\n", "*", "B", "r", "a", "n", "c", "h", ":", "*", " ", Backtick, "r", "e", "l", "e", "a", "s", "e", "s", "/">> \o release \o <<Backtick, "\n">>

\* change.match(/WSU-\d+/): the first match, the empty sequence when there is none
WsuMatch(change) ==
    LET starts == { i \in Occurrences(change, <<"W", "S", "U", "-">>) : DigitRunEnd(change, i + 4) >= i + 4 }
    IN IF starts = {} THEN <<>>
       ELSE SubSeq(change, Min(starts), DigitRunEnd(change, Min(starts) + 4))

\* change.match(/#(\d+)\)/): the group of the first match, the empty sequence when there is none
PrMatch(change) ==
    LET ends(i) == { e \in (i + 1)..Len(change) :
                        /\ \A m \in (i + 1)..e : IsDigit(change[m])
                        /\ e < Len(change) /\ change[e + 1] = ")" }
        starts == { i \in DOMAIN change : change[i] = "#" /\ ends(i) # {} }
    IN IF starts = {} THEN <<>>
       ELSE SubSeq(change, Min(starts) + 1, CHOOSE e \in ends(Min(starts)) : TRUE)

\* s.replace(p, '') for a string p: the first occurrence leaves
RemoveFirst(s, p) ==
    IF ~IncludesText(s, p) THEN s
    ELSE LET i == Min(Occurrences(s, p))
         IN SubSeq(s, 1, i - 1) \o SubSeq(s, i + Len(p), Len(s))

RECURSIVE RemoveLinksFrom(_, _)
\* s.replace(/<[^>]*>/g, ''), from position i on
RemoveLinksFrom(s, i) ==
    LET opens == { k \in i..Len(s) : s[k] = "<" /\ \E m \in (k + 1)..Len(s) : s[m] = ">" }
    IN IF opens = {} THEN SubSeq(s, i, Len(s))
       ELSE LET k == Min(opens)
                e == Min({ m \in (k + 1)..Len(s) : s[m] = ">" })
            IN SubSeq(s, i, k - 1) \o RemoveLinksFrom(s, e + 1)

\* the text of the checkbox of the change at index (0-based)
OptionText(change, index) ==
    LET jiraMatch == WsuMatch(change)
        githubMatch == PrMatch(change)
        label == IF jiraMatch # <<>> THEN jiraMatch
                 ELSE IF githubMatch # <<>> THEN <<"P", "R", " ", "#">> \o githubMatch
                 ELSE <<"C", "h", "a", "n", "g", "e", " ">> \o NatToString(index + 1)
        description == RemoveLinksFrom(RemoveFirst(change, <<Bullet, " ">>), 1)
        words == split(description, " ")
        firstWords == JoinWith(SubSeq(words, 1, IF Len(words) < OptionWords THEN Len(words)
                                                ELSE OptionWords), <<" ">>)
        shown == IF Len(description) > Len(firstWords) THEN firstWords \o Ellipsis
                 ELSE description
    IN substring(label \o <<":", " ">> \o shown, 0, OptionTextMax)

\* the checkbox options: one for each of the first maxChangesToShow changes
CheckboxOptions(changes) ==
    LET maxChangesToShow == IF Len(changes) < maxChangesToShowLimit THEN Len(changes)
                            ELSE maxChangesToShowLimit
    IN [k \in 1..maxChangesToShow |->
          [text |-> OptionText(changes[k], k - 1), value |-> NatToString(k - 1)]]

\* the checkbox sections, maxOptionsPerGroup options each
CheckboxGroups(options) ==
    LET groups == (Len(options) + maxOptionsPerGroup - 1) \div maxOptionsPerGroup
    IN [g \in 1..groups |->
          Checkboxes(IF g = 1 THEN <<"C", "h", "e", "c", "k", "b", "o", "x", "e", "s", ":">> ELSE <<"M", "o", "r", "e", ":">>,
                     <<"s", "e", "l", "e", "c", "t", "_", "c", "h", "a", "n", "g", "e", "s", "_">> \o NatToString(g - 1),
                     SubSeq(options, (g - 1) * maxOptionsPerGroup + 1,
                            IF g * maxOptionsPerGroup < Len(options)
                            THEN g * maxOptionsPerGroup ELSE Len(options)))]

\* chunkTextForSlack(fullPreview)
PreviewChunks(fullPreview) == chunkTextForSlack(fullPreview, ChunkMax)

\* the blocks of the interactive preview of the /release command
PreviewBlocks(changes, release, channel_id, channel_name) ==
    LET head == << Section(<<"*", "R", "e", "l", "e", "a", "s", "e", " ", "A", "n", "n", "o", "u", "n", "c", "e", "m", "e", "n", "t", " ", "P", "r", "e", "v", "i", "e", "w", "*">>),
                   Section(<<"*", "B", "r", "a", "n", "c", "h", ":", "*", " ", Backtick, "r", "e", "l", "e", "a", "s", "e", "s", "/">> \o release \o <<Backtick>>) >>
        fullPreview == AnnouncementHeader(release) \o <<"*", "C", "h", "a", "n", "g", "e", "s", ":", "*", "\n">> \o JoinWith(changes, <<"\n">>)
        previewChunks == PreviewChunks(fullPreview)
        options == CheckboxOptions(changes)
        warning ==
            IF Len(changes) > Len(options)
            THEN << Section(<<WarningSign, VariationSelector>> \o <<" ", "*", "S", "h", "o", "w", "i", "n", "g", " ", "f", "i", "r", "s", "t", " ">>
                            \o NatToString(Len(options)) \o <<" ", "o", "f", " ">> \o NatToString(Len(changes))
                            \o <<" ", "c", "h", "a", "n", "g", "e", "s", " ", "i", "n", " ", "s", "e", "l", "e", "c", "t", "i", "o", "n", " ", "b", "e", "l", "o", "w", ".", " ", "A", "l", "l", " ", "c", "h", "a", "n", "g", "e", "s", " ", "w", "i", "l", "l", " ", "b", "e", " ", "i", "n", "c", "l", "u", "d", "e", "d", " ", "i", "n", " ", "t", "h", "e", " ", "a", "n", "n", "o", "u", "n", "c", "e", "m", "e", "n", "t", " ", "u", "n", "l", "e", "s", "s", " ", "y", "o", "u", " ", "d", "e", "s", "e", "l", "e", "c", "t", " ", "t", "h", "e", "m", ".", "*">>) >>
            ELSE <<>>
        body == IF Len(changes) > 0
                THEN << Section(<<"*", "F", "u", "l", "l", " ", "a", "n", "n", "o", "u", "n", "c", "e", "m", "e", "n", "t", " ", "p", "r", "e", "v", "i", "e", "w", ":", "*">>) >>
                     \o [k \in DOMAIN previewChunks |-> Section(previewChunks[k])]
                     \o << Divider >>
                     \o warning
                     \o << Section(<<"*", "S", "e", "l", "e", "c", "t", " ", "c", "h", "a", "n", "g", "e", "s", " ", "t", "o", " ", "i", "n", "c", "l", "u", "d", "e", " ", "(", "a", "l", "l", " ", "s", "e", "l", "e", "c", "t", "e", "d", " ", "b", "y", " ", "d", "e", "f", "a", "u", "l", "t", ")", ":", "*">>) >>
                     \o CheckboxGroups(options)
                ELSE << Section(<<"*", "C", "h", "a", "n", "g", "e", "s", ":", "*", " ", "N", "o", " ", "c", "o", "m", "m", "i", "t", "s", " ", "f", "o", "u", "n", "d", " ", "i", "n", " ", "t", "h", "i", "s", " ", "r", "e", "l", "e", "a", "s", "e", ".">>) >>
        buttons == << Button(<<"s", "e", "n", "d", "_", "a", "n", "n", "o", "u", "n", "c", "e", "m", "e", "n", "t">>,
                             createSafeButtonValue([allChanges |-> changes,
                                                    releaseNumber |-> release,
                                                    channelId |-> channel_id,
                                                    channelName |-> channel_name],
                                                   ButtonValueMax)),
                      Button(<<"c", "a", "n", "c", "e", "l", "_", "a", "n", "n", "o", "u", "n", "c", "e", "m", "e", "n", "t">>, <<>>) >>
    IN head \o body \o << Actions(buttons) >>

\* the for..of loop of the /release command from commit i on, seen being processedCommits:
\* a commit is processed unless its short sha was seen before
ReleaseLoop(cs, i, seen) ==
    Concat([k \in 1..(Len(cs) - i + 1) |->
              IF ShortId(cs[k + i - 1]) \in seen
                 \/ \E m \in i..(k + i - 2) : ShortId(cs[m]) = ShortId(cs[k + i - 1])
              THEN <<>>
              ELSE ReleaseLines(cs[k + i - 1])])

\* a call of respond(); a string argument is a text shown to the user only
Respond(t) == [text |-> t, response_type |-> "ephemeral", replace_original |-> FALSE, blocks |-> <<>>]
RespondBlocks(t, b) ==
    [text |-> t, response_type |-> "ephemeral", replace_original |-> FALSE, blocks |-> b]
RespondReplace(t) ==
    [text |-> t, response_type |-> "ephemeral", replace_original |-> TRUE, blocks |-> <<>>]

\* the message of the error thrown by octokit for a failed comparison
RequestErrorMessage(status) == IF status = 404 THEN <<"N", "o", "t", " ", "F", "o", "u", "n", "d">> ELSE <<"S", "e", "r", "v", "e", "r", " ", "E", "r", "r", "o", "r">>

\* the text that the catch of the /release command answers with
ReleaseErrorMessage(release, failure) ==
    IF failure.kind = "status" /\ failure.status = 404
    THEN <<CrossMark>> \o <<" ", "C", "o", "u", "l", "d", " ", "n", "o", "t", " ", "f", "i", "n", "d", " ", "r", "e", "l", "e", "a", "s", "e", " ", "b", "r", "a", "n", "c", "h", "e", "s", " ", "i", "n", " ", "G", "i", "t", "H", "u", "b", ".", "\n", "\n", "P", "l", "e", "a", "s", "e", " ", "c", "h", "e", "c", "k", " ", "t", "h", "a", "t", " ", "t", "h", "e", "s", "e", " ", "b", "r", "a", "n", "c", "h", "e", "s", " ", "e", "x", "i", "s", "t", ":", "\n", Bullet, " ", Backtick, "r", "e", "l", "e", "a", "s", "e", "s", "/">>
         \o getPreviousRelease(release).value \o <<Backtick, " ", "(", "p", "r", "e", "v", "i", "o", "u", "s", " ", "r", "e", "l", "e", "a", "s", "e", ")", "\n", Bullet, " ", Backtick, "r", "e", "l", "e", "a", "s", "e", "s", "/">>
         \o release \o <<Backtick, " ", "(", "c", "u", "r", "r", "e", "n", "t", " ", "r", "e", "l", "e", "a", "s", "e", ")", "\n", "\n", "R", "e", "p", "o", "s", "i", "t", "o", "r", "y", ":", " ", Backtick>>
         \o GITHUB_OWNER \o <<"/">> \o GITHUB_REPO \o <<Backtick>>
    ELSE IF failure.kind = "throw" /\ failure.value = "Invalid release number format"
    THEN <<CrossMark>> \o <<" ", "I", "n", "v", "a", "l", "i", "d", " ", "r", "e", "l", "e", "a", "s", "e", " ", "n", "u", "m", "b", "e", "r", " ", "f", "o", "r", "m", "a", "t", ":", " ", Backtick>> \o release
         \o <<Backtick, "\n", "\n", "P", "l", "e", "a", "s", "e", " ", "p", "r", "o", "v", "i", "d", "e", " ", "a", " ", "v", "a", "l", "i", "d", " ", "r", "e", "l", "e", "a", "s", "e", " ", "n", "u", "m", "b", "e", "r", " ", "(", "e", ".", "g", ".", ",", " ", "\"", "6", "7", "\"", " ", "o", "r", " ", "\"", "2", ".", "1", ".", "0", "\"", ")", ".">>
    ELSE IF failure.kind = "throw" /\ failure.value = "Cannot determine previous release"
    THEN <<CrossMark>> \o <<" ", "C", "a", "n", "n", "o", "t", " ", "d", "e", "t", "e", "r", "m", "i", "n", "e", " ", "p", "r", "e", "v", "i", "o", "u", "s", " ", "r", "e", "l", "e", "a", "s", "e", " ", "f", "o", "r", ":", " ", Backtick>> \o release
         \o <<Backtick, "\n", "\n", "R", "e", "l", "e", "a", "s", "e", " ", "n", "u", "m", "b", "e", "r", "s", " ", "m", "u", "s", "t", " ", "b", "e", " ", "g", "r", "e", "a", "t", "e", "r", " ", "t", "h", "a", "n", " ", "1", ".">>
    ELSE <<CrossMark>> \o <<" ", "A", "n", " ", "e", "r", "r", "o", "r", " ", "o", "c", "c", "u", "r", "r", "e", "d", ":", " ">> \o failure.message

\* the text sent when Slack refuses the blocks of the preview
InvalidBlocksText(changes, release) ==
    <<CrossMark>> \o <<" ", "U", "n", "a", "b", "l", "e", " ", "t", "o", " ", "d", "i", "s", "p", "l", "a", "y", " ", "i", "n", "t", "e", "r", "a", "c", "t", "i", "v", "e", " ", "p", "r", "e", "v", "i", "e", "w", " ", "d", "u", "e", " ", "t", "o", " ", "t", "e", "x", "t", " ", "l", "e", "n", "g", "t", "h", " ", "l", "i", "m", "i", "t", "s", ".", "\n", "\n", "F", "o", "u", "n", "d", " ">>
    \o NatToString(Len(changes)) \o <<" ", "c", "h", "a", "n", "g", "e", "s", " ", "f", "o", "r", " ", "r", "e", "l", "e", "a", "s", "e", " ", Backtick>> \o release
    \o <<Backtick, ".", "\n", "\n", "P", "l", "e", "a", "s", "e", " ", "t", "r", "y", " ", "u", "s", "i", "n", "g", " ", "t", "h", "e", " ", "t", "e", "s", "t", " ", "e", "n", "d", "p", "o", "i", "n", "t", " ", "a", "t", " ", Backtick, "/", "a", "p", "i", "/", "t", "e", "s", "t", "?", "t", "e", "s", "t", "=", "r", "e", "l", "e", "a", "s", "e", "&", "r", "e", "l", "e", "a", "s", "e", "=">>
    \o release \o <<Backtick, " ", "t", "o", " ", "v", "i", "e", "w", " ", "t", "h", "e", " ", "c", "h", "a", "n", "g", "e", "s", ".">>

\* body.state of an interaction with the preview: every checkbox group, its checked options
StateOf(blocks) ==
    LET boxes == SelectSeq(blocks, LAMBDA b : b.accessory.type = "checkboxes")
    IN [present |-> TRUE,
        values |-> [g \in DOMAIN boxes |->
                      [action_id |-> boxes[g].accessory.action_id,
                       selected_options |-> boxes[g].accessory.options]]]

\* the request of octokit.repos.compareCommits for a release and its previous release
CompareCommits(previous, release) ==
    [base |-> <<"r", "e", "l", "e", "a", "s", "e", "s", "/">> \o previous,
     head |-> <<"r", "e", "l", "e", "a", "s", "e", "s", "/">> \o release]

\* the /release slash command
ReleaseCommand ==
    /\ op = "release"
    /\ appPc = "start"
    /\ \E release \in { ReleaseNumberOf(trim(request.text)) } :
       \E changes \in { ReleaseLoop(comparison.commits, 1, {}) } :
       \E blocks \in { IF trim(request.text) = <<>> \/ comparison.status # 200 THEN <<>>
                        ELSE PreviewBlocks(changes, release, request.channel_id,
                                           request.channel_name) } :
       LET commandText == trim(request.text)
           previousRelease == getPreviousRelease(release)
           answer(t) == /\ responses' = Append(responses, Respond(t))
                        /\ appPc' = "done"
                        /\ UNCHANGED <<message, state>>
       IN /\ fetches' = IF commandText = <<>> \/ release = <<>> \/ previousRelease.kind = "throw"
                         THEN fetches
                         ELSE Append(fetches, CompareCommits(previousRelease.value, release))
          /\ IF commandText = <<>> THEN answer(<<"P", "l", "e", "a", "s", "e", " ", "p", "r", "o", "v", "i", "d", "e", " ", "a", " ", "r", "e", "l", "e", "a", "s", "e", " ", "n", "u", "m", "b", "e", "r", ".">>)
             ELSE IF release = <<>> THEN answer(<<"P", "l", "e", "a", "s", "e", " ", "p", "r", "o", "v", "i", "d", "e", " ", "a", " ", "v", "a", "l", "i", "d", " ", "r", "e", "l", "e", "a", "s", "e", " ", "n", "u", "m", "b", "e", "r", ".">>)
             ELSE IF previousRelease.kind = "throw"
             THEN answer(ReleaseErrorMessage(release, previousRelease))
             ELSE IF comparison.status # 200
             THEN answer(ReleaseErrorMessage(release,
                           [kind |-> "status", status |-> comparison.status,
                            message |-> RequestErrorMessage(comparison.status)]))
             ELSE \E slack \in {"ok", "invalid_blocks", "failed"} :
                     IF slack = "ok"
                     THEN /\ responses' = Append(responses,
                                             RespondBlocks(<<"R", "e", "l", "e", "a", "s", "e", " ", "a", "n", "n", "o", "u", "n", "c", "e", "m", "e", "n", "t", " ", "p", "r", "e", "v", "i", "e", "w", ":">>, blocks))
                          /\ message' = [blocks |-> blocks]
                          /\ state' \in {StateOf(blocks), NoState}
                          /\ appPc' = "preview"
                     ELSE IF slack = "invalid_blocks"
                     THEN answer(InvalidBlocksText(changes, release))
                     ELSE answer(ReleaseErrorMessage(release,
                                   [kind |-> "slack", message |-> <<"A", "n", " ", "A", "P", "I", " ", "e", "r", "r", "o", "r", " ", "o", "c", "c", "u", "r", "r", "e", "d">>]))
    /\ UNCHANGED <<op, request, comparison, result, outbox>>
    /\ UNCHANGED <<mapVars, relVars, chunkVars, tokenVars, httpVars>>

\* the user checks or unchecks the option with this value in checkbox group g; the
\* handler of select_changes_N acknowledges and does nothing else
select_changes(g, value) ==
    /\ op = "release"
    /\ appPc = "preview"
    /\ state.present
    /\ g \in DOMAIN state.values
    /\ LET boxes == SelectSeq(message.blocks, LAMBDA b : b.accessory.type = "checkboxes")
           offered == boxes[g].accessory.options
           now == state.values[g].selected_options
       IN /\ \E k \in DOMAIN offered : offered[k].value = value
          /\ state' =
               [state EXCEPT !.values[g].selected_options =
                  IF \E k \in DOMAIN now : now[k].value = value
                  THEN SelectSeq(now, LAMBDA o : o.value # value)
                  ELSE Append(now, offered[CHOOSE k \in DOMAIN offered : offered[k].value = value])]
    /\ UNCHANGED <<op, request, comparison, result, message, outbox, responses, fetches, appPc>>
    /\ UNCHANGED <<mapVars, relVars, chunkVars, tokenVars, httpVars>>

----------------------------------------------------------------------------
(* The interactions with the preview: send_announcement and cancel_announcement *)

\* the value of the button of the preview with this action_id
ButtonValue(blocks, id) ==
    LET acts == SelectSeq(blocks, LAMBDA b : b.type = "actions")
        btns == SelectSeq(acts[1].elements, LAMBDA e : e.action_id = id)
    IN btns[1].value

\* block.type === 'section' && block.text?.text
HasSectionText(block) == block.type = "section" /\ block.text # <<>>

\* mutant: the bullet marker is not kept
BulletLines_Unmarked(blockText) ==
    LET lines == split(blockText, "\n")
        trimmed == [k \in DOMAIN lines |-> trim(lines[k])]
        marked == SelectSeq(trimmed, LAMBDA l : StartsWith(l, <<Bullet, " ">>))
    IN [k \in DOMAIN marked |-> SubSeq(marked[k], 3, Len(marked[k]))]

\* the lines of blockText that start with the bullet once trimmed, each trimmed
BulletLines(blockText) ==
    LET lines == split(blockText, "\n")
        trimmed == [k \in DOMAIN lines |-> trim(lines[k])]
    IN SelectSeq(trimmed, LAMBDA l : StartsWith(l, <<Bullet, " ">>))

\* first extraction: the bullet lines of the section blocks from the one that holds '*Changes:*' on
ChangesSectionLines(blocks) ==
    LET found == { b \in DOMAIN blocks :
                     HasSectionText(blocks[b]) /\ IncludesText(blocks[b].text, <<"*", "C", "h", "a", "n", "g", "e", "s", ":", "*">>) }
    IN IF found = {} THEN <<>>
       ELSE Concat([b \in DOMAIN blocks |->
                      IF b >= Min(found) /\ HasSectionText(blocks[b])
                      THEN BulletLines(blocks[b].text) ELSE <<>>])

\* second extraction: the bullet lines of every section block
AllSectionLines(blocks) ==
    Concat([b \in DOMAIN blocks |->
              IF HasSectionText(blocks[b]) THEN BulletLines(blocks[b].text) ELSE <<>>])

\* fullChanges of send_announcement: the changes of the button, or those read from the message
fullChangesOf(buttonData, blocks) ==
    LET carried == IF HasProp(buttonData, <<"a", "l", "l", "C", "h", "a", "n", "g", "e", "s">>)
                   THEN Strings(GetProp(buttonData, <<"a", "l", "l", "C", "h", "a", "n", "g", "e", "s">>)) ELSE <<>>
        simplified == HasProp(buttonData, <<"s", "i", "m", "p", "l", "i", "f", "i", "e", "d">>) /\ GetProp(buttonData, <<"s", "i", "m", "p", "l", "i", "f", "i", "e", "d">>).v
        first == ChangesSectionLines(blocks)
    IN IF carried = <<>> \/ simplified
       THEN IF HasProp(buttonData, <<"c", "h", "a", "n", "g", "e", "C", "o", "u", "n", "t">>)
               /\ Len(first) < GetProp(buttonData, <<"c", "h", "a", "n", "g", "e", "C", "o", "u", "n", "t">>).v
            THEN AllSectionLines(blocks)
            ELSE first
       ELSE carried

\* the values of the selected options of the groups select_changes_N, in the order of the payload
SelectedValues(st) ==
    IF ~st.present THEN <<>>
    ELSE Concat([g \in DOMAIN st.values |->
                   IF StartsWith(st.values[g].action_id, <<"s", "e", "l", "e", "c", "t", "_", "c", "h", "a", "n", "g", "e", "s", "_">>)
                   THEN [k \in DOMAIN st.values[g].selected_options |->
                           st.values[g].selected_options[k].value]
                   ELSE <<>>])

\* selectedChanges after the loops over the checkbox groups
checkedChanges(fullChanges, st) ==
    LET indexes == [k \in DOMAIN SelectedValues(st) |-> parseInt(SelectedValues(st)[k])]
        inRange == SelectSeq(indexes, LAMBDA v : ~v.nan /\ v.val >= 0 /\ v.val < Len(fullChanges))
    IN [k \in DOMAIN inRange |-> fullChanges[inRange[k].val + 1]]

\* mutant: nothing selected means nothing sent
selectedChangesOf_FailClosed(fullChanges, st) == checkedChanges(fullChanges, st)

\* selectedChanges of send_announcement
selectedChangesOf(fullChanges, st) ==
    IF Len(checkedChanges(fullChanges, st)) = 0 /\ Len(fullChanges) > 0 THEN fullChanges
    ELSE checkedChanges(fullChanges, st)

\* mutant: the announcement is the change lines alone
SelectedMessage_Bare(release, selectedChanges) == JoinWith(selectedChanges, <<"\n">>)

\* the announcement of send_announcement
SelectedMessage(release, selectedChanges) ==
    IF Len(selectedChanges) > 0
    THEN AnnouncementHeader(release) \o <<"*", "C", "h", "a", "n", "g", "e", "s", ":", "*", "\n">> \o JoinWith(selectedChanges, <<"\n">>)
    ELSE AnnouncementHeader(release) \o <<"*", "C", "h", "a", "n", "g", "e", "s", ":", "*", " ", "N", "o", " ", "c", "h", "a", "n", "g", "e", "s", " ", "s", "e", "l", "e", "c", "t", "e", "d", ".">>

\* a call of the Slack Web API that carries a text
Call(m, c, u, t, success) == [method |-> m, channel |-> c, user |-> u, text |-> t, ok |-> success]

\* mutant: the ephemeral copy is sent whenever the bot is in the channel
Deliveries_Both(isDM, channel_id, user_id, msg, env) ==
    IF isDM THEN << Call("chat.postMessage", user_id, <<>>, msg, env.post) >>
    ELSE IF env.info
    THEN << Call("chat.postMessage", channel_id, <<>>, msg, env.post),
            Call("chat.postEphemeral", channel_id, user_id, msg, env.ephemeral) >>
    ELSE << Call("chat.postEphemeral", channel_id, user_id, msg, env.ephemeral) >>

\* mutant: in a DM the announcement is posted to the channel id
Deliveries_ToChannel(isDM, channel_id, user_id, msg, env) ==
    IF isDM \/ env.info
    THEN << Call("chat.postMessage", channel_id, <<>>, msg, env.post) >>
    ELSE << Call("chat.postEphemeral", channel_id, user_id, msg, env.ephemeral) >>

\* the calls send_announcement makes to deliver the announcement; env tells which calls
\* Slack accepts: conversations.info, chat.postMessage, chat.postEphemeral
Deliveries(isDM, channel_id, user_id, msg, env) ==
    LET fallback == Call("chat.postEphemeral", channel_id, user_id,
                         <<WarningSign, VariationSelector>>
                         \o <<" ", "B", "o", "t", " ", "d", "o", "e", "s", "n", "'", "t", " ", "h", "a", "v", "e", " ", "p", "e", "r", "m", "i", "s", "s", "i", "o", "n", " ", "t", "o", " ", "p", "o", "s", "t", " ", "t", "o", " ", "t", "h", "i", "s", " ", "c", "h", "a", "n", "n", "e", "l", ".", " ", "H", "e", "r", "e", "'", "s", " ", "y", "o", "u", "r", " ", "a", "n", "n", "o", "u", "n", "c", "e", "m", "e", "n", "t", ":", "\n", "\n">>
                         \o msg, env.ephemeral)
    IN IF isDM THEN << Call("chat.postMessage", user_id, <<>>, msg, env.post) >>
       ELSE IF ~env.info THEN << fallback >>
       ELSE IF env.post THEN << Call("chat.postMessage", channel_id, <<>>, msg, TRUE) >>
       ELSE << Call("chat.postMessage", channel_id, <<>>, msg, FALSE), fallback >>

SlackEnvs == [info : BOOLEAN, post : BOOLEAN, ephemeral : BOOLEAN]

\* the handler of the button 'Send Selected Changes'
send_announcement ==
    /\ op = "release"
    /\ appPc = "preview"
    /\ \E buttonData \in { JsonParse(ButtonValue(message.blocks, <<"s", "e", "n", "d", "_", "a", "n", "n", "o", "u", "n", "c", "e", "m", "e", "n", "t">>)) } :
       \E fullChanges \in { fullChangesOf(buttonData, message.blocks) } :
       \E selectedChanges \in { selectedChangesOf(fullChanges, state) }, env \in SlackEnvs :
         LET release == GetProp(buttonData, <<"r", "e", "l", "e", "a", "s", "e", "N", "u", "m", "b", "e", "r">>).v
             msg == SelectedMessage(release, selectedChanges)
             isDM == StartsWith(request.channel_id, <<"D">>)
                        \/ request.channel_name = <<"d", "i", "r", "e", "c", "t", "m", "e", "s", "s", "a", "g", "e">>
             calls == Deliveries(isDM, request.channel_id, request.user_id, msg, env)
             delivered == calls[Len(calls)].ok
             sentTo == IF isDM THEN <<"y", "o", "u", "r", " ", "D", "M", "s">>
                       ELSE IF calls[Len(calls)].method = "chat.postMessage"
                       THEN <<"<", "#">> \o request.channel_id \o <<">">>
                       ELSE <<"<", "#">> \o request.channel_id
                            \o <<">", " ", "(", "a", "s", " ", "e", "p", "h", "e", "m", "e", "r", "a", "l", " ", "m", "e", "s", "s", "a", "g", "e", " ", "-", " ", "b", "o", "t", " ", "n", "e", "e", "d", "s", " ", "t", "o", " ", "b", "e", " ", "a", "d", "d", "e", "d", " ", "t", "o", " ", "c", "h", "a", "n", "n", "e", "l", ")">>
             totalCount == IF HasProp(buttonData, <<"c", "h", "a", "n", "g", "e", "C", "o", "u", "n", "t">>)
                              /\ GetProp(buttonData, <<"c", "h", "a", "n", "g", "e", "C", "o", "u", "n", "t">>).v # 0
                           THEN GetProp(buttonData, <<"c", "h", "a", "n", "g", "e", "C", "o", "u", "n", "t">>).v
                           ELSE Len(fullChanges)
         IN /\ outbox' = outbox \o calls
            /\ responses' = Append(responses,
                 IF delivered
                 THEN RespondReplace(<<CheckMark>> \o <<" ", "R", "e", "l", "e", "a", "s", "e", " ", "a", "n", "n", "o", "u", "n", "c", "e", "m", "e", "n", "t", " ", "f", "o", "r", " ", Backtick>> \o release
                        \o <<Backtick, " ", "h", "a", "s", " ", "b", "e", "e", "n", " ", "s", "e", "n", "t", " ", "t", "o", " ">> \o sentTo \o <<".", "\n", "\n", "*", "I", "n", "c", "l", "u", "d", "e", "d", ":", "*", " ">>
                        \o NatToString(Len(selectedChanges)) \o <<" ", "o", "f", " ">>
                        \o NatToString(totalCount) \o <<" ", "c", "h", "a", "n", "g", "e", "s">>)
                 ELSE RespondReplace(<<CrossMark>>
                        \o <<" ", "F", "a", "i", "l", "e", "d", " ", "t", "o", " ", "s", "e", "n", "d", " ", "a", "n", "n", "o", "u", "n", "c", "e", "m", "e", "n", "t", ":", " ", "U", "n", "a", "b", "l", "e", " ", "t", "o", " ", "s", "e", "n", "d", " ", "a", "n", "n", "o", "u", "n", "c", "e", "m", "e", "n", "t", ":", " ">>
                        \o <<"A", "n", " ", "A", "P", "I", " ", "e", "r", "r", "o", "r", " ", "o", "c", "c", "u", "r", "r", "e", "d">>))
            /\ result' = [kind |-> "send", fullChanges |-> fullChanges,
                          selectedChanges |-> selectedChanges, message |-> msg,
                          delivered |-> delivered]
    /\ appPc' = "sent"
    /\ UNCHANGED <<op, request, comparison, message, state, fetches>>
    /\ UNCHANGED <<mapVars, relVars, chunkVars, tokenVars, httpVars>>

\* body.message.blocks[1].text.text.match(/releases\/(.+?)`/)[1], or 'unknown'
CancelledRelease(blocks) ==
    LET t == IF Len(blocks) >= 2 THEN blocks[2].text ELSE <<>>
        p == <<"r", "e", "l", "e", "a", "s", "e", "s", "/">>
        \* the backticks that can close a match starting at i
        closers(i) == { j \in (i + Len(p) + 1)..Len(t) :
                          /\ t[j] = Backtick
                          /\ \A m \in (i + Len(p))..(j - 1) : t[m] \notin LineTerminators }
        starts == { i \in Occurrences(t, p) : closers(i) # {} }
    IN IF starts = {} THEN <<"u", "n", "k", "n", "o", "w", "n">>
       ELSE SubSeq(t, Min(starts) + Len(p), Min(closers(Min(starts))) - 1)

\* the handler of the button 'Cancel'
cancel_announcement ==
    /\ op = "release"
    /\ appPc = "preview"
    /\ responses' = Append(responses,
            RespondReplace(<<CrossMark>> \o <<" ", "R", "e", "l", "e", "a", "s", "e", " ", "a", "n", "n", "o", "u", "n", "c", "e", "m", "e", "n", "t", " ", "f", "o", "r", " ", Backtick>>
                           \o CancelledRelease(message.blocks) \o <<Backtick, " ", "w", "a", "s", " ", "c", "a", "n", "c", "e", "l", "l", "e", "d", ".">>))
    /\ appPc' = "cancelled"
    /\ UNCHANGED <<op, request, comparison, result, message, state, outbox, fetches>>
    /\ UNCHANGED <<mapVars, relVars, chunkVars, tokenVars, httpVars>>

----------------------------------------------------------------------------
(* Inputs of the /release command and of its preview *)

\* a sha whose first seven characters tell the commits apart
NumberedSha(k) == NatToString(1000000 + k) \o <<"a", "b">>

\* commit k of a series: an issue reference only, or a ticket with an issue reference
IssueCommit(k) ==
    [sha |-> NumberedSha(k),
     message |-> <<"C", "h", "a", "n", "g", "e", " ">> \o NatToString(k) \o <<" ", "(", "#">> \o NatToString(k) \o <<")">>,
     author |-> Author]
TicketCommit(k) ==
    [sha |-> NumberedSha(k),
     message |-> JIRA_PROJECT \o <<"-">> \o NatToString(k) \o <<" ", "f", "i", "x", " ">> \o NatToString(k)
                 \o <<" ", "(", "#">> \o NatToString(k) \o <<")">>,
     author |-> Author]
IssueRun(n) == [k \in 1..n |-> IssueCommit(k)]
TicketRun(n) == [k \in 1..n |-> TicketCommit(k)]

\* a commit whose change line alone is longer than a block of the preview may be
HugeCommit ==
    [sha |-> NumberedSha(0), message |-> LongTitle(ChunkMax) \o <<" ", "(", "#", "7", ")">>, author |-> Author]

\* the commits of a short comparison: an issue, a ticket, no reference, the sha of the first again
FlowCommits ==
    { IssueCommit(1), TicketCommit(2),
      [sha |-> NumberedSha(3), message |-> MsgPlain, author |-> Author],
      [sha |-> NumberedSha(1), message |-> MsgBoth, author |-> Author] }

\* the comparisons GitHub answers with: short ones, long ones, one with a huge line, failures
ShortComparisons ==
    { [status |-> 200, commits |-> cs] :
        cs \in UNION { [1..n -> FlowCommits] : n \in 0..MaxFlowCommits } }
LongComparisons ==
    { [status |-> 200, commits |-> cs] :
        cs \in { IssueRun(ManyIssues), TicketRun(ManyTickets), TicketRun(MoreTickets),
                 <<HugeCommit>>, <<IssueCommit(1), HugeCommit>> } }
FailedComparisons == { [status |-> s, commits |-> <<>>] : s \in {404, 500} }

\* the slash commands: the text typed after /release, the channel it is typed in
FlowRequests ==
    { [text |-> t, releaseNumber |-> <<>>, channel_id |-> c.id, channel_name |-> c.name,
       user_id |-> <<"U", "1">>, customMessage |-> <<>>, filterEmptyCommits |-> TRUE] :
        t \in { <<"6", "7">>, <<"/", "r", "e", "l", "e", "a", "s", "e", " ", "2", ".", "1", ".", "0">>, <<" ">>, <<"1">>, <<"a", "b", "c">> }, c \in TokenChannels }

InitFlow ==
    /\ MapIdle
    /\ RelIdle
    /\ ChunkIdle
    /\ TokenIdle
    /\ HttpIdle
    /\ op = "release"
    /\ request \in FlowRequests
    /\ comparison \in ShortComparisons \cup LongComparisons \cup FailedComparisons
    /\ request.text = <<"6", "7">> \/ Len(comparison.commits) <= 1
    /\ AppQuiet
    /\ outbox = <<>>
    /\ responses = <<>>
    /\ appPc = "start"

\* the options a user toggles in the model: the first ones of the first group
ToggleValues == { NatToString(k) : k \in 0..(MaxToggled - 1) }

NextFlow ==
    \/ ReleaseCommand
    \/ \E g \in 1..(maxChangesToShowLimit \div maxOptionsPerGroup), value \in ToggleValues :
          select_changes(g, value)
    \/ send_announcement
    \/ cancel_announcement

SpecFlow == InitFlow /\ [][NextFlow]_vars

----------------------------------------------------------------------------
(* A click on 'Send Selected Changes' with any checkbox state in the payload *)

\* the values that options of a payload carry: indexes in range, out of range, not numbers
SubmittedValues == { <<"0">>, <<"1">>, <<"2">>, <<"7">>, <<"-", "1">>, <<"x">> }

Option(value) == [text |-> value, value |-> value]

\* the sequences without repetition of at most n of these values
RECURSIVE Arrangements(_, _)
Arrangements(values, n) ==
    IF n = 0 THEN { <<>> }
    ELSE LET shorter == Arrangements(values, n - 1)
         IN shorter \cup UNION { { Append(q, v) : v \in values \ Range(q) } :
                                   q \in { s \in shorter : Len(s) = n - 1 } }

\* body.state of a payload: absent, or one group select_changes_0 followed by nothing, by a
\* second group, or by the state of another input of the message
SubmittedStates ==
    { NoState }
    \cup { [present |-> TRUE,
            values |-> << [action_id |-> <<"s", "e", "l", "e", "c", "t", "_", "c", "h", "a", "n", "g", "e", "s", "_", "0">>,
                           selected_options |-> [k \in DOMAIN q |-> Option(q[k])]] >> \o rest] :
             q \in Arrangements(SubmittedValues, MaxChecked),
             rest \in { <<>>,
                        << [action_id |-> <<"s", "e", "l", "e", "c", "t", "_", "c", "h", "a", "n", "g", "e", "s", "_", "1">>,
                            selected_options |-> << Option(<<"1">>) >>] >>,
                        << [action_id |-> <<"s", "e", "l", "e", "c", "t", "_", "c", "h", "a", "n", "g", "e", "s", "_", "1">>,
                            selected_options |-> << Option(<<"7">>) >>] >>,
                        << [action_id |-> <<"o", "t", "h", "e", "r", "_", "i", "n", "p", "u", "t">>,
                            selected_options |-> << Option(<<"0">>) >>] >> } }

\* the comparisons whose preview is clicked: none to three changes in the button, and
\* a preview whose button carries the reduced value
SendComparisons ==
    { [status |-> 200, commits |-> cs] :
        cs \in { <<>>, <<IssueCommit(1)>>, <<IssueCommit(1), TicketCommit(2)>>,
                 <<TicketCommit(1), IssueCommit(2), IssueCommit(3)>>,
                 TicketRun(ManyTickets) } }

InitSend ==
    /\ MapIdle
    /\ RelIdle
    /\ ChunkIdle
    /\ TokenIdle
    /\ HttpIdle
    /\ op = "release"
    /\ request \in { r \in FlowRequests : r.text = <<"6", "7">> }
    /\ comparison \in SendComparisons
    /\ result = NoResult
    /\ fetches = << CompareCommits(<<"6", "6">>, <<"6", "7">>) >>
    /\ \E blocks \in { PreviewBlocks(ReleaseLoop(comparison.commits, 1, {}), <<"6", "7">>,
                                      request.channel_id, request.channel_name) } :
          /\ message = [blocks |-> blocks]
          /\ responses = << RespondBlocks(<<"R", "e", "l", "e", "a", "s", "e", " ", "a", "n", "n", "o", "u", "n", "c", "e", "m", "e", "n", "t", " ", "p", "r", "e", "v", "i", "e", "w", ":">>, blocks) >>
    /\ state \in SubmittedStates
    /\ outbox = <<>>
    /\ appPc = "preview"

NextSend ==
    \/ send_announcement
    \/ cancel_announcement

SpecSend == InitSend /\ [][NextSend]_vars

----------------------------------------------------------------------------
(* Claims about the selection of send_announcement *)

\* the decoded value of the button 'Send Selected Changes' of the preview
SendToken == JsonParse(ButtonValue(message.blocks, <<"s", "e", "n", "d", "_", "a", "n", "n", "o", "u", "n", "c", "e", "m", "e", "n", "t">>))
TokenIsFull == ~HasProp(SendToken, <<"s", "i", "m", "p", "l", "i", "f", "i", "e", "d">>)
\* the changes a full token carries
Carried == Strings(GetProp(SendToken, <<"a", "l", "l", "C", "h", "a", "n", "g", "e", "s">>))
\* the option values checked in the payload, and those that are indexes of carried changes
Checked == Range(SelectedValues(state))
CheckedInRange(n) ==
    { i \in 0..(n - 1) : \E v \in Checked : ~parseInt(v).nan /\ parseInt(v).val = i }
Sent == op = "release" /\ appPc = "sent" /\ result.kind = "send"

\* C13: with a full token and a non-empty set of checked indices, the handler returns
\* exactly the carried changes whose index is a checked index within 0..n-1; a checked
\* index outside that range adds no change to the result
C13_CheckedOnly ==
    (Sent /\ TokenIsFull /\ Checked # {}) =>
        Range(result.selectedChanges) = { Carried[i + 1] : i \in CheckedInRange(Len(Carried)) }

\* the changes that can be recovered from the payload: those of a full token, else the
\* bullet lines of the message
Recoverable ==
    IF TokenIsFull /\ Carried # <<>> THEN Carried ELSE AllSectionLines(message.blocks)

\* C14: with no checked index and at least one recoverable change the handler returns
\* all recoverable changes; it returns none only when nothing is recoverable, and the
\* announcement then says that no changes were selected
C14_FailOpen ==
    Sent =>
        /\ (Checked = {} /\ Recoverable # <<>>) => result.selectedChanges = Recoverable
        /\ result.selectedChanges = <<>> =>
              /\ Recoverable = <<>>
              /\ EndsWith(result.message, <<"*", "C", "h", "a", "n", "g", "e", "s", ":", "*", " ", "N", "o", " ", "c", "h", "a", "n", "g", "e", "s", " ", "s", "e", "l", "e", "c", "t", "e", "d", ".">>)
              /\ \A k \in DOMAIN outbox :
                    EndsWith(outbox[k].text, <<"*", "C", "h", "a", "n", "g", "e", "s", ":", "*", " ", "N", "o", " ", "c", "h", "a", "n", "g", "e", "s", " ", "s", "e", "l", "e", "c", "t", "e", "d", ".">>)

\* a payload whose checkbox state is present and empty, for a full token with several
\* changes, all of them sent
C14_Witness ==
    /\ Sent
    /\ state.present
    /\ Checked = {}
    /\ TokenIsFull
    /\ Len(Carried) > 1
    /\ result.selectedChanges = Carried
    /\ outbox # <<>>

----------------------------------------------------------------------------
(* Claims about the changes read back from the preview *)

\* the change list the /release command built the preview from
Original == ReleaseLoop(comparison.commits, 1, {})

\* the form in which chunkTextForSlack shows a line of the preview
Shown(line) ==
    IF Len(line) > ChunkMax THEN SubSeq(line, 1, ChunkMax - 3) \o Ellipsis ELSE line

\* the changes at the checked indexes of a list, in the order of the payload
AtChecked(list) ==
    LET inRange == SelectSeq(SelectedValues(state),
                             LAMBDA v : ~parseInt(v).nan /\ parseInt(v).val \in 0..(Len(list) - 1))
    IN [k \in DOMAIN inRange |-> list[parseInt(inRange[k]).val + 1]]

\* C15 as stated: with a simplified token, the list read back from the preview of the
\* original change list equals the original list: same length, same order, same text
C15_RecoveredEqualsOriginal ==
    Sent => \A original \in { Original } :
               ~HasProp(SendToken, <<"s", "i", "m", "p", "l", "i", "f", "i", "e", "d">>)
               \/ result.fullChanges = original

\* C15: with a simplified token, the list read back from the preview has the length
\* changeCount and holds, in the original order, every original change line in the form
\* the preview shows it: a line longer than a block may be appears hard-truncated; a
\* checked index i selects the line the preview shows at position i
C15_RecoveredAsShown ==
    Sent => \A tok \in { SendToken } : \A original \in { Original } :
            \A checked \in { AtChecked(original) } :
               HasProp(tok, <<"s", "i", "m", "p", "l", "i", "f", "i", "e", "d">>) =>
                  /\ Len(result.fullChanges) = Len(original)
                  /\ Len(result.fullChanges) = GetProp(tok, <<"c", "h", "a", "n", "g", "e", "C", "o", "u", "n", "t">>).v
                  /\ \A i \in DOMAIN original : result.fullChanges[i] = Shown(original[i])
                  /\ checked # <<>> =>
                        result.selectedChanges = [k \in DOMAIN checked |-> Shown(checked[k])]

\* a preview of several changes whose button carries the reduced value, sent after the
\* user unchecked a change: the list read back is the original one
C15_Witness ==
    /\ Sent
    /\ Len(result.selectedChanges) < Len(result.fullChanges)
    /\ result.selectedChanges # <<>>
    /\ ~TokenIsFull
    /\ result.fullChanges = Original

----------------------------------------------------------------------------
(* generateAndSendAnnouncement and extractChangesFromGitHub *)

\* the for..of loop of generateAndSendAnnouncement from commit i on
AnnounceLoop(cs, i, seen, filterEmpty) ==
    Concat([k \in 1..(Len(cs) - i + 1) |->
              IF ShortId(cs[k + i - 1]) \in seen
                 \/ \E m \in i..(k + i - 2) : ShortId(cs[m]) = ShortId(cs[k + i - 1])
              THEN <<>>
              ELSE AnnounceEntries(cs[k + i - 1], filterEmpty)])

RECURSIVE ExpandReplacement(_, _, _, _)
\* the text a replacement string stands for in String.prototype.replace: $$ is a dollar,
\* $& the match, then the text before the match and the text after it
ExpandReplacement(r, s, at, p) ==
    IF r = <<>> THEN <<>>
    ELSE IF Len(r) >= 2 /\ r[1] = "$" /\ r[2] \in {"$", "&", Backtick, "'"}
    THEN (CASE r[2] = "$" -> <<"$">>
            [] r[2] = "&" -> p
            [] r[2] = Backtick -> SubSeq(s, 1, at - 1)
            [] OTHER -> SubSeq(s, at + Len(p), Len(s)))
         \o ExpandReplacement(SubSeq(r, 3, Len(r)), s, at, p)
    ELSE <<r[1]>> \o ExpandReplacement(Tail(r), s, at, p)

\* s.replace(p, r) with a string p: the first occurrence only
ReplaceString(s, p, r) ==
    IF ~IncludesText(s, p) THEN s
    ELSE LET at == Min(Occurrences(s, p))
         IN SubSeq(s, 1, at - 1) \o ExpandReplacement(r, s, at, p)
            \o SubSeq(s, at + Len(p), Len(s))

\* mutant: the GitHub link of a JIRA change is not appended
RenderChange_NoSecondary(change) ==
    IF change.type = "jira"
    THEN <<Bullet, " ", "<">> \o change.url \o <<"|">> \o change.summary \o <<">">>
    ELSE IF change.type = "github"
    THEN <<Bullet, " ">> \o change.summary \o <<" ", "<">> \o change.url \o <<"|", "(", "#">> \o change.key \o <<")", ">">>
    ELSE <<Bullet, " ">> \o change.summary

\* the line of one change in the default announcement
RenderChange(change) ==
    IF change.type = "jira"
    THEN <<Bullet, " ", "<">> \o change.url \o <<"|">> \o change.summary \o <<">">>
         \o (IF change.githubUrl # Absent /\ change.githubUrl # <<>>
             THEN <<" ", "<">> \o change.githubUrl \o <<"|", "(", "#">> \o change.githubKey \o <<")", ">">>
             ELSE <<>>)
    ELSE IF change.type = "github"
    THEN <<Bullet, " ">> \o change.summary \o <<" ", "<">> \o change.url \o <<"|", "(", "#">> \o change.key \o <<")", ">">>
    ELSE <<Bullet, " ">> \o change.summary

\* step 3 of generateAndSendAnnouncement: the message
AnnouncementMessage(customMessage, release, changes) ==
    IF customMessage # <<>>
    THEN ReplaceString(ReplaceString(customMessage, <<"{", "{", "r", "e", "l", "e", "a", "s", "e", "N", "u", "m", "b", "e", "r", "}", "}">>, release),
                       <<"{", "{", "c", "h", "a", "n", "g", "e", "C", "o", "u", "n", "t", "}", "}">>, NatToString(Len(changes)))
    ELSE IF Len(changes) > 0
    THEN AnnouncementHeader(release) \o <<"*", "C", "h", "a", "n", "g", "e", "s", ":", "*", "\n">>
         \o JoinWith([k \in DOMAIN changes |-> RenderChange(changes[k])], <<"\n">>)
    ELSE AnnouncementHeader(release) \o <<"*", "C", "h", "a", "n", "g", "e", "s", ":", "*", " ", "N", "o", " ", "c", "o", "m", "m", "i", "t", "s", " ", "f", "o", "u", "n", "d", " ", "i", "n", " ", "t", "h", "i", "s", " ", "r", "e", "l", "e", "a", "s", "e", ".">>

\* the message of the error that getPreviousRelease throws
ThrownMessage(e) ==
    IF e = "Invalid release number format" THEN <<"I", "n", "v", "a", "l", "i", "d", " ", "r", "e", "l", "e", "a", "s", "e", " ", "n", "u", "m", "b", "e", "r", " ", "f", "o", "r", "m", "a", "t">>
    ELSE <<"C", "a", "n", "n", "o", "t", " ", "d", "e", "t", "e", "r", "m", "i", "n", "e", " ", "p", "r", "e", "v", "i", "o", "u", "s", " ", "r", "e", "l", "e", "a", "s", "e">>

\* what generateAndSendAnnouncement returns
Success(changes, msg) ==
    [kind |-> "announce", success |-> TRUE, changes |-> changes, message |-> msg, error |-> <<>>]
Failure(e) ==
    [kind |-> "announce", success |-> FALSE, changes |-> <<>>, message |-> <<>>, error |-> e]

generateAndSendAnnouncement ==
    /\ op = "announce"
    /\ appPc = "start"
    /\ LET previousRelease == getPreviousRelease(request.releaseNumber)
       IN IF previousRelease.kind = "throw"
          THEN /\ result' = Failure(ThrownMessage(previousRelease.value))
               /\ UNCHANGED <<outbox, fetches>>
          ELSE /\ fetches' = Append(fetches, CompareCommits(previousRelease.value,
                                                            request.releaseNumber))
               /\ IF comparison.status # 200
                  THEN /\ result' = Failure(RequestErrorMessage(comparison.status))
                       /\ UNCHANGED outbox
                  ELSE \E changes \in
                            { AnnounceLoop(comparison.commits, 1, {}, request.filterEmptyCommits) } :
                       \E msg \in { AnnouncementMessage(request.customMessage, request.releaseNumber,
                                                        changes) } :
                       \E posted \in BOOLEAN :
                          /\ outbox' = Append(outbox, Call("chat.postMessage", request.channel_id,
                                                           <<>>, msg, posted))
                          /\ result' = IF posted THEN Success(changes, msg)
                                       ELSE Failure(<<"A", "n", " ", "A", "P", "I", " ", "e", "r", "r", "o", "r", " ", "o", "c", "c", "u", "r", "r", "e", "d">>)
    /\ appPc' = "done"
    /\ UNCHANGED <<op, request, comparison, message, state, responses>>
    /\ UNCHANGED <<mapVars, relVars, chunkVars, tokenVars, httpVars>>

\* what extractChangesFromGitHub returns: its catch answers every error with an empty list
ExtractedChanges(release, cmp) ==
    IF getPreviousRelease(release).kind = "throw" \/ cmp.status # 200
    THEN [kind |-> "extract", threw |-> FALSE, changes |-> <<>>]
    ELSE [kind |-> "extract", threw |-> FALSE, changes |-> ReleaseLoop(cmp.commits, 1, {})]

extractChangesFromGitHub ==
    /\ op = "extract"
    /\ appPc = "start"
    /\ result' = ExtractedChanges(request.releaseNumber, comparison)
    /\ fetches' = IF getPreviousRelease(request.releaseNumber).kind = "throw" THEN fetches
                  ELSE Append(fetches, CompareCommits(getPreviousRelease(request.releaseNumber).value,
                                                      request.releaseNumber))
    /\ appPc' = "done"
    /\ UNCHANGED <<op, request, comparison, message, state, outbox, responses>>
    /\ UNCHANGED <<mapVars, relVars, chunkVars, tokenVars, httpVars>>

----------------------------------------------------------------------------
(* Inputs of generateAndSendAnnouncement and extractChangesFromGitHub *)

\* the commit of the example: title 'Fix login (#42)', a message that mentions ABC-100
LoginCommit ==
    [sha |-> NumberedSha(4), message |-> <<"F", "i", "x", " ", "l", "o", "g", "i", "n", " ", "(", "#", "4", "2", ")", "\n", "\n", "S", "e", "e", " ", "A", "B", "C", "-", "1", "0", "0">>, author |-> Author]

AnnouncePool ==
    { LoginCommit, IssueCommit(1),
      [sha |-> NumberedSha(2), message |-> <<"A", "B", "C", "-", "5", " ", "f", "i", "x">>, author |-> Author],
      [sha |-> NumberedSha(3), message |-> MsgPlain, author |-> Author],
      [sha |-> NumberedSha(1), message |-> MsgPlain, author |-> Author] }

AnnounceComparisons ==
    { [status |-> 200, commits |-> cs] :
        cs \in UNION { [1..n -> AnnouncePool] : n \in 0..MaxAnnounceCommits } }
    \cup FailedComparisons

\* the pieces of a custom message, and the custom messages made of them
TemplateFrags == { <<"{", "{", "r", "e", "l", "e", "a", "s", "e", "N", "u", "m", "b", "e", "r", "}", "}">>, <<"{", "{", "c", "h", "a", "n", "g", "e", "C", "o", "u", "n", "t", "}", "}">>, <<"v">>, <<"{", "{">>, <<Bullet, " ", "x", "\n">> }
Templates == { Concat(f) : f \in UNION { [1..k -> TemplateFrags] : k \in 0..MaxTemplateFrags } }

AnnounceReleases == { <<"6", "7">>, <<"2", ".", "1", ".", "0">>, <<"1">>, <<"a", "b", "c">>, <<"6", "$", "&">> }

InitAnnounce ==
    /\ MapIdle
    /\ RelIdle
    /\ ChunkIdle
    /\ TokenIdle
    /\ HttpIdle
    /\ op \in {"announce", "extract"}
    /\ comparison \in AnnounceComparisons
    /\ request \in
         { [text |-> <<>>, releaseNumber |-> r, channel_id |-> <<"C", "1">>, channel_name |-> <<>>,
            user_id |-> <<>>, customMessage |-> t, filterEmptyCommits |-> f] :
             r \in AnnounceReleases, t \in Templates, f \in BOOLEAN }
    /\ request.customMessage # <<>> =>
          /\ op = "announce"
          /\ request.filterEmptyCommits
          /\ Len(comparison.commits) <= 1
          /\ request.releaseNumber \in { <<"6", "7">>, <<"6", "$", "&">> }
    /\ op = "extract" => request.filterEmptyCommits
    /\ AppQuiet
    /\ outbox = <<>>
    /\ responses = <<>>
    /\ appPc = "start"

NextAnnounce ==
    \/ generateAndSendAnnouncement
    \/ extractChangesFromGitHub

SpecAnnounce == InitAnnounce /\ [][NextAnnounce]_vars

----------------------------------------------------------------------------
(* Claims about the announcement of generateAndSendAnnouncement *)

Announced == op = "announce" /\ appPc = "done" /\ result.kind = "announce" /\ result.success

\* the fixed header of an announcement, naming the branch of the release
FixedHeader(release) == <<"*", "D", "e", "p", "l", "o", "y", "i", "n", "g", " ", "t", "o", " ", "p", "r", "o", "d", "*", " ", RocketHi, RocketLo, "\n", "*", "B", "r", "a", "n", "c", "h", ":", "*", " ", Backtick, "r", "e", "l", "e", "a", "s", "e", "s", "/">> \o release \o <<Backtick, "\n">>

\* the bullet line the claim gives for a change of each kind
BulletLineOf(change) ==
    CASE change.type = "jira" ->
            IF change.githubKey = Absent
            THEN <<Bullet, " ", "<">> \o change.url \o <<"|">> \o change.summary \o <<">">>
            ELSE <<Bullet, " ", "<">> \o change.url \o <<"|">> \o change.summary \o <<">", " ", "<">>
                 \o change.githubUrl \o <<"|", "(", "#">> \o change.githubKey \o <<")", ">">>
      [] change.type = "github" ->
            <<Bullet, " ">> \o change.summary \o <<" ", "<">> \o change.url \o <<"|", "(", "#">> \o change.key \o <<")", ">">>
      [] OTHER -> <<Bullet, " ">> \o change.summary

\* the line of the example: the commit 'Fix login (#42)' that mentions ABC-100
LoginLine == <<Bullet, " ", "<", "h", "t", "t", "p", "s", ":", "/", "/", "j", ".", "i", "o", "/", "b", "r", "o", "w", "s", "e", "/", "A", "B", "C", "-", "1", "0", "0", "|", "F", "i", "x", " ", "l", "o", "g", "i", "n", ">", " ", "<", "h", "t", "t", "p", "s", ":", "/", "/", "g", "i", "t", "h", "u", "b", ".", "c", "o", "m", "/", "o", "/", "r", "/", "p", "u", "l", "l", "/", "4", "2", "|", "(", "#", "4", "2", ")", ">">>

\* C16: without a custom message the announcement is the fixed header naming
\* releases/<release> followed by one bullet line per change, in list order, joined by
\* newlines, each in the form of its kind; with no change it is the fixed no-commits
\* message; the commit 'Fix login (#42)' mentioning ABC-100 gives the line of the example
C16_DefaultRender ==
    (Announced /\ request.customMessage = <<>>) =>
        \A changes \in { result.changes } :
           /\ changes = <<>> =>
                 result.message = FixedHeader(request.releaseNumber)
                                  \o <<"*", "C", "h", "a", "n", "g", "e", "s", ":", "*", " ", "N", "o", " ", "c", "o", "m", "m", "i", "t", "s", " ", "f", "o", "u", "n", "d", " ", "i", "n", " ", "t", "h", "i", "s", " ", "r", "e", "l", "e", "a", "s", "e", ".">>
           /\ changes # <<>> =>
                 result.message = FixedHeader(request.releaseNumber) \o <<"*", "C", "h", "a", "n", "g", "e", "s", ":", "*", "\n">>
                     \o JoinWith([k \in DOMAIN changes |-> BulletLineOf(changes[k])], <<"\n">>)
           /\ comparison.commits # <<>> /\ comparison.commits[1] = LoginCommit =>
                 /\ split(result.message, "\n")[4] = LoginLine
                 /\ Len(split(result.message, "\n")) = 3 + Len(changes)
           /\ outbox[Len(outbox)].text = result.message

\* an announcement of the example commit followed by a commit without reference
C16_Witness ==
    /\ Announced
    /\ request.customMessage = <<>>
    /\ Len(result.changes) = 2
    /\ result.changes[1].type = "jira"
    /\ result.changes[2].type = "plain"
    /\ comparison.commits[1] = LoginCommit
    /\ split(result.message, "\n")[4] = LoginLine

RECURSIVE FilledFrom(_, _, _, _)
\* the template from position i on with every token {{releaseNumber}} replaced by the
\* release and every token {{changeCount}} by the number of changes
FilledFrom(t, i, release, count) ==
    LET rn == <<"{", "{", "r", "e", "l", "e", "a", "s", "e", "N", "u", "m", "b", "e", "r", "}", "}">>
        cc == <<"{", "{", "c", "h", "a", "n", "g", "e", "C", "o", "u", "n", "t", "}", "}">>
        tokens == { k \in i..Len(t) : OccursAt(t, rn, k) \/ OccursAt(t, cc, k) }
    IN IF tokens = {} THEN SubSeq(t, i, Len(t))
       ELSE LET k == Min(tokens)
            IN SubSeq(t, i, k - 1)
               \o (IF OccursAt(t, rn, k) THEN release ELSE NatToString(count))
               \o FilledFrom(t, k + (IF OccursAt(t, rn, k) THEN Len(rn) ELSE Len(cc)),
                             release, count)

\* C17: with a custom message the announcement is the template with every token
\* {{releaseNumber}} replaced by the release and every token {{changeCount}} by the
\* number of changes and nothing else changed; no token of the template remains
C17_TemplateFilled ==
    (Announced /\ request.customMessage # <<>>) =>
        /\ result.message = FilledFrom(request.customMessage, 1, request.releaseNumber,
                                       Len(result.changes))
        /\ request.releaseNumber = <<"6", "7">> =>
              /\ ~IncludesText(result.message, <<"{", "{", "r", "e", "l", "e", "a", "s", "e", "N", "u", "m", "b", "e", "r", "}", "}">>)
              /\ ~IncludesText(result.message, <<"{", "{", "c", "h", "a", "n", "g", "e", "C", "o", "u", "n", "t", "}", "}">>)

\* the resolution of the previous release fails, or GitHub does not answer with a comparison
Failing == getPreviousRelease(request.releaseNumber).kind = "throw" \/ comparison.status # 200

\* C18: a failure of the release resolution or of the commit source is surfaced to the
\* caller as an error and never recovered locally into an empty change list:
\* generateAndSendAnnouncement reports it and announces nothing, and
\* extractChangesFromGitHub raises it
C18_FailureSurfaced ==
    (op \in {"announce", "extract"} /\ appPc = "done" /\ Failing) =>
        /\ op = "announce" => (~result.success /\ result.error # <<>> /\ outbox = <<>>)
        /\ op = "extract" => result.threw

----------------------------------------------------------------------------
(* Claims about the /release flow *)

\* the calls added to the outbox by a step, and those of them that Slack delivered
NewCalls == SubSeq(outbox', Len(outbox) + 1, Len(outbox'))
DeliveredNow == { k \in DOMAIN NewCalls : NewCalls[k].ok }

PublishStep ==
    /\ outbox' # outbox =>
          /\ appPc = "preview"
          /\ appPc' = "sent"
          /\ Len(outbox') > Len(outbox)
          /\ SubSeq(outbox', 1, Len(outbox)) = outbox
          /\ Cardinality(DeliveredNow) <= 1
          /\ \A k \in DOMAIN NewCalls : EndsWith(NewCalls[k].text, result'.message)
    /\ appPc = "start" =>
          /\ Len(responses') = Len(responses) + 1
          /\ responses'[Len(responses')].response_type = "ephemeral"
    /\ appPc' \in {"preview", "cancelled", "done"} => outbox' = outbox

\* C19: in the /release flow only a send_announcement step publishes: the command answers
\* with an ephemeral preview and sends nothing, cancel_announcement and the checkbox
\* toggles send nothing, and one send_announcement step delivers at most one message
C19_PublishOnlyBySend == [][PublishStep]_vars

\* an announcement sent after the bot was refused in the channel: the post failed, the
\* ephemeral copy was delivered, once
C19_Witness ==
    /\ Sent
    /\ Len(responses) = 2
    /\ Len(outbox) = 2
    /\ ~outbox[1].ok
    /\ outbox[2].ok
    /\ outbox[2].method = "chat.postEphemeral"

\* the values of the checkboxes that the preview offers
OfferedValues ==
    UNION { { b.accessory.options[k].value : k \in DOMAIN b.accessory.options } :
              b \in Range(message.blocks) }

\* C20: for a release with more than 30 changes the preview offers checkboxes for the
\* first 30 only, the changes beyond the 30th are always in the announcement, and a
\* change among the first 30 is left out only when its box was unchecked
C20_BeyondLimitIncluded ==
    Sent => \A original \in { Original } :
               Len(original) > maxChangesToShowLimit =>
                  /\ OfferedValues = { NatToString(i) : i \in 0..(maxChangesToShowLimit - 1) }
                  /\ \A i \in (maxChangesToShowLimit + 1)..Len(original) :
                        original[i] \in Range(result.selectedChanges)
                  /\ \A i \in 1..maxChangesToShowLimit :
                        original[i] \notin Range(result.selectedChanges) =>
                           NatToString(i - 1) \notin Checked

----------------------------------------------------------------------------
(* Claims about where send_announcement delivers *)

IsDM ==
    \/ StartsWith(request.channel_id, <<"D">>)
    \/ request.channel_name = <<"d", "i", "r", "e", "c", "t", "m", "e", "s", "s", "a", "g", "e">>
LastResponse == responses[Len(responses)]
SaysSent(r) ==
    /\ r.text[1] = CheckMark
    /\ IncludesText(r.text, <<"h", "a", "s", " ", "b", "e", "e", "n", " ", "s", "e", "n", "t">>)
SaysFailed(r) ==
    /\ r.text[1] = CrossMark
    /\ IncludesText(r.text, <<"F", "a", "i", "l", "e", "d", " ", "t", "o", " ", "s", "e", "n", "d">>)

\* C21: send_announcement posts the announcement to the invoking user when the channel
\* is a DM and to the channel of the command otherwise; it sends the ephemeral copy to
\* the invoking user in that channel only when the bot could not access or post to the
\* channel; the response says 'has been sent' exactly when one of these calls was
\* delivered, and says 'Failed to send' otherwise
C21_DeliveredWhereUsed ==
    Sent =>
        /\ outbox # <<>>
        /\ IsDM => Len(outbox) = 1 /\ outbox[1].method = "chat.postMessage"
        /\ \A k \in DOMAIN outbox :
              /\ outbox[k].method = "chat.postMessage" =>
                    /\ k = 1
                    /\ outbox[k].channel = IF IsDM THEN request.user_id ELSE request.channel_id
                    /\ outbox[k].text = result.message
                    /\ (~IsDM /\ ~outbox[k].ok) =>
                          (Len(outbox) = 2 /\ outbox[2].method = "chat.postEphemeral")
                    /\ outbox[k].ok => Len(outbox) = 1
              /\ outbox[k].method = "chat.postEphemeral" =>
                    /\ ~IsDM
                    /\ k = Len(outbox)
                    /\ outbox[k].channel = request.channel_id
                    /\ outbox[k].user = request.user_id
                    /\ EndsWith(outbox[k].text, result.message)
        /\ SaysSent(LastResponse) <=> \E k \in DOMAIN outbox : outbox[k].ok
        /\ SaysFailed(LastResponse) <=> \A k \in DOMAIN outbox : ~outbox[k].ok

\* the bot is not in the channel of the command: the only call is the ephemeral copy to
\* the invoking user, it is delivered, and the response says so
C21_Witness ==
    /\ Sent
    /\ ~IsDM
    /\ Len(outbox) = 1
    /\ outbox[1].method = "chat.postEphemeral"
    /\ outbox[1].user = request.user_id
    /\ outbox[1].ok
    /\ SaysSent(LastResponse)
    /\ IncludesText(LastResponse.text, <<"a", "s", " ", "e", "p", "h", "e", "m", "e", "r", "a", "l">>)

----------------------------------------------------------------------------
(* The test endpoint api/test: rate limit, access checks, the tests *)

RATE_LIMIT_WINDOW == 5 * 60 * 1000
RATE_LIMIT_MAX_REQUESTS == 10

\* a string that JavaScript takes for true in a condition
Truthy(s) == s # Absent /\ s # <<>>
\* a || b
OrElse(a, b) == IF Truthy(a) THEN a ELSE b

\* the first loop of checkRateLimit: the entries older than the window are deleted
CleanOldEntries(counts, windowStart) ==
    [id \in { i \in DOMAIN counts : ~(counts[i].timestamp < windowStart) } |-> counts[id]]

\* mutant: a request of a client that is over the limit starts the window again
checkRateLimit_Extends(counts, clientId, t) ==
    LET windowStart == t - RATE_LIMIT_WINDOW
        kept == CleanOldEntries(counts, windowStart)
        found == IF clientId \in DOMAIN kept THEN kept[clientId]
                 ELSE [count |-> 0, timestamp |-> t]
        clientData == IF found.timestamp < windowStart
                      THEN [count |-> 1, timestamp |-> t]
                      ELSE [count |-> found.count + 1,
                            timestamp |-> IF found.count >= RATE_LIMIT_MAX_REQUESTS THEN t
                                          ELSE found.timestamp]
    IN [requestCounts |-> [id \in DOMAIN kept \cup {clientId} |->
                             IF id = clientId THEN clientData ELSE kept[id]],
        allowed |-> clientData.count <= RATE_LIMIT_MAX_REQUESTS,
        remaining |-> IF RATE_LIMIT_MAX_REQUESTS - clientData.count > 0
                      THEN RATE_LIMIT_MAX_REQUESTS - clientData.count ELSE 0,
        resetTime |-> clientData.timestamp + RATE_LIMIT_WINDOW]

\* mutant: the remaining count is the plain difference
checkRateLimit_PlainRemaining(counts, clientId, t) ==
    LET windowStart == t - RATE_LIMIT_WINDOW
        kept == CleanOldEntries(counts, windowStart)
        found == IF clientId \in DOMAIN kept THEN kept[clientId]
                 ELSE [count |-> 0, timestamp |-> t]
        clientData == IF found.timestamp < windowStart
                      THEN [count |-> 1, timestamp |-> t]
                      ELSE [found EXCEPT !.count = @ + 1]
    IN [requestCounts |-> [id \in DOMAIN kept \cup {clientId} |->
                             IF id = clientId THEN clientData ELSE kept[id]],
        allowed |-> clientData.count <= RATE_LIMIT_MAX_REQUESTS,
        remaining |-> RATE_LIMIT_MAX_REQUESTS - clientData.count,
        resetTime |-> clientData.timestamp + RATE_LIMIT_WINDOW]

\* checkRateLimit(clientId) at time t: the Map after the call and the verdict
checkRateLimit(counts, clientId, t) ==
    LET windowStart == t - RATE_LIMIT_WINDOW
        kept == CleanOldEntries(counts, windowStart)
        found == IF clientId \in DOMAIN kept THEN kept[clientId]
                 ELSE [count |-> 0, timestamp |-> t]
        clientData == IF found.timestamp < windowStart
                      THEN [count |-> 1, timestamp |-> t]
                      ELSE [found EXCEPT !.count = @ + 1]
    IN [requestCounts |-> [id \in DOMAIN kept \cup {clientId} |->
                             IF id = clientId THEN clientData ELSE kept[id]],
        allowed |-> clientData.count <= RATE_LIMIT_MAX_REQUESTS,
        remaining |-> IF RATE_LIMIT_MAX_REQUESTS - clientData.count > 0
                      THEN RATE_LIMIT_MAX_REQUESTS - clientData.count ELSE 0,
        resetTime |-> clientData.timestamp + RATE_LIMIT_WINDOW]

\* mutant: the switch ENABLE_TEST_ENDPOINT is not read
isTestingDisabled_Never(e) == FALSE

isTestingDisabled(e) ==
    /\ e.NODE_ENV = <<"p", "r", "o", "d", "u", "c", "t", "i", "o", "n">>
    /\ e.ENABLE_TEST_ENDPOINT # <<"t", "r", "u", "e">>

\* the errors of validateTestAccess, in order
validateTestAccess(req, e) ==
    LET providedKey == OrElse(req.headers.xApiKey, req.query.api_key)
        origin == OrElse(req.headers.origin, req.headers.referer)
        allowed == LET parts == split(e.TEST_ALLOWED_ORIGINS, ",")
                   IN [k \in DOMAIN parts |-> trim(parts[k])]
    IN (IF isTestingDisabled(e) THEN << "Testing endpoint is disabled in production" >> ELSE <<>>)
       \o (IF Truthy(e.TEST_API_KEY)
              /\ (~Truthy(providedKey) \/ providedKey # e.TEST_API_KEY)
           THEN << "Invalid or missing API key" >> ELSE <<>>)
       \o (IF Truthy(e.TEST_ALLOWED_ORIGINS) /\ Truthy(origin)
              /\ ~\E k \in DOMAIN allowed : IncludesText(origin, allowed[k])
           THEN << "Origin not allowed" >> ELSE <<>>)

\* req.headers['x-forwarded-for'] || req.connection?.remoteAddress || 'unknown'
ClientIdOf(req) ==
    OrElse(req.headers.xForwardedFor, OrElse(req.remoteAddress, <<"u", "n", "k", "n", "o", "w", "n">>))

\* a response of api/test: the status, what the body is, the tests that were started, the
\* rate limit headers, the reasons of a denial
TestAnswer(status, kind, tests, rateLimit, reasons) ==
    [status |-> status, kind |-> kind, tests |-> tests, remaining |-> rateLimit.remaining,
     resetTime |-> rateLimit.resetTime, reasons |-> reasons]

NoRateLimit == [remaining |-> Absent, resetTime |-> Absent]

\* testJiraConnection: the configuration is validated, nothing is called
JiraConfigured(e) == Truthy(e.JIRA_SERVER) /\ Truthy(e.JIRA_PROJECT)

\* the part of the handler after the two checks: the answer and the comparisons requested
RunTests(req, e, rateLimit, githubOk) ==
    LET test == req.query.test
        release == req.query.release
        answer(status, kind, tests) ==
            [res |-> TestAnswer(status, kind, tests, rateLimit, <<>>), fetches |-> <<>>]
        releaseTest(number, status, tests) ==
            LET previousRelease == getPreviousRelease(number)
            IN IF previousRelease.kind = "throw" THEN answer(500, "error", tests)
               ELSE [res |-> TestAnswer(status, "test", tests, rateLimit, <<>>),
                     fetches |-> << CompareCommits(previousRelease.value, number) >>]
    IN IF ~Truthy(test) THEN answer(200, "health", {})
       ELSE IF test = <<"g", "i", "t", "h", "u", "b">>
       THEN answer(IF githubOk THEN 200 ELSE 500, "test", {"github"})
       ELSE IF test = <<"j", "i", "r", "a">>
       THEN answer(IF JiraConfigured(e) THEN 200 ELSE 500, "test", {"jira"})
       ELSE IF test = <<"r", "e", "l", "e", "a", "s", "e">>
       THEN IF ~Truthy(release) THEN answer(400, "bad_request", {})
            ELSE releaseTest(release, 200, {"release"})
       ELSE IF test = <<"a", "l", "l">>
       THEN releaseTest(OrElse(release, <<"2", ".", "1", ".", "0">>), 200,
                        {"github", "jira", "release"})
       ELSE answer(400, "bad_request", {})

\* what the history keeps of an answer
Answered(t, res) == [at |-> t, limited |-> res.status = 429, resetTime |-> res.resetTime]

\* the handler of api/test for one request; githubOk tells whether GitHub accepts the token
api_test(req, githubOk) ==
    /\ op = "test"
    /\ httpReq' = req
    /\ IF req.method = "OPTIONS"
       THEN /\ httpRes' = TestAnswer(200, "preflight", {}, NoRateLimit, <<>>)
            /\ UNCHANGED <<requestCounts, history, fetches>>
       ELSE \E clientId \in { ClientIdOf(req) } :
            \E rateLimit \in { checkRateLimit(requestCounts, clientId, clock) } :
            \E errors \in { validateTestAccess(req, processEnv) } :
            \E out \in { IF ~rateLimit.allowed
                         THEN [res |-> TestAnswer(429, "rate_limited", {}, rateLimit, <<>>),
                               fetches |-> <<>>]
                         ELSE IF errors # <<>>
                         THEN [res |-> TestAnswer(403, "denied", {}, rateLimit, errors),
                               fetches |-> <<>>]
                         ELSE RunTests(req, processEnv, rateLimit, githubOk) } :
               /\ requestCounts' = rateLimit.requestCounts
               /\ httpRes' = out.res
               /\ fetches' = fetches \o out.fetches
               /\ history' = [id \in DOMAIN history \cup {clientId} |->
                                IF id \in DOMAIN history
                                THEN IF id = clientId
                                     THEN Append(history[id], Answered(clock, out.res))
                                     ELSE history[id]
                                ELSE << Answered(clock, out.res) >>]
    /\ UNCHANGED <<processEnv, clock>>
    /\ UNCHANGED <<op, request, comparison, result, message, state, outbox, responses, appPc>>
    /\ UNCHANGED <<mapVars, relVars, chunkVars, tokenVars>>

\* time passes
Tick(d) ==
    /\ op = "test"
    /\ clock' = clock + d
    /\ UNCHANGED <<processEnv, requestCounts, httpReq, httpRes, history>>
    /\ UNCHANGED <<mapVars, relVars, chunkVars, tokenVars, appVars>>

----------------------------------------------------------------------------
(* Inputs of api/test *)

MaxRequests == 12
MaxOtherRequests == 1
MaxAccessRequests == 2
\* the instants at which requests arrive: a start, exactly one window after the start,
\* one millisecond more
Instants == {0, RATE_LIMIT_WINDOW, RATE_LIMIT_WINDOW + 1}

ClientA == <<"1", "0", ".", "0", ".", "0", ".", "1">>
ClientB == <<"1", "0", ".", "0", ".", "0", ".", "2">>

\* a deployment where every variable the endpoints read is set and api/test is open
OpenEnv ==
    [NODE_ENV |-> <<"d", "e", "v", "e", "l", "o", "p", "m", "e", "n", "t">>,
     ENABLE_TEST_ENDPOINT |-> Absent,
     TEST_API_KEY |-> Absent,
     TEST_ALLOWED_ORIGINS |-> Absent,
     ANNOUNCE_API_KEY |-> <<"k", "1">>,
     SLACK_BOT_TOKEN |-> <<"x", "o", "x", "b">>,
     GITHUB_TOKEN |-> <<"g", "h", "p">>,
     GITHUB_OWNER |-> GITHUB_OWNER,
     GITHUB_REPO |-> GITHUB_REPO,
     JIRA_SERVER |-> JIRA_SERVER,
     JIRA_PROJECT |-> JIRA_PROJECT]

Production == <<"p", "r", "o", "d", "u", "c", "t", "i", "o", "n">>
OriginA == <<"h", "t", "t", "p", ":", "/", "/", "a", ".", "i", "o">>
OriginB == <<"h", "t", "t", "p", ":", "/", "/", "b", ".", "i", "o">>
OriginC == <<"h", "t", "t", "p", ":", "/", "/", "c", ".", "i", "o">>

\* the deployments of api/test: open; production with the switch absent, 'false', 'TRUE'
\* and 'true'; with a key; with allowed origins; production with allowed origins
TestEnvs ==
    { OpenEnv,
      [OpenEnv EXCEPT !.NODE_ENV = Production],
      [OpenEnv EXCEPT !.NODE_ENV = Production, !.ENABLE_TEST_ENDPOINT = <<"f", "a", "l", "s", "e">>],
      [OpenEnv EXCEPT !.NODE_ENV = Production, !.ENABLE_TEST_ENDPOINT = <<"T", "R", "U", "E">>],
      [OpenEnv EXCEPT !.NODE_ENV = Production, !.ENABLE_TEST_ENDPOINT = <<"t", "r", "u", "e">>],
      [OpenEnv EXCEPT !.TEST_API_KEY = <<"t", "1">>],
      [OpenEnv EXCEPT !.JIRA_SERVER = Absent],
      [OpenEnv EXCEPT !.TEST_ALLOWED_ORIGINS = OriginA \o <<",", " ">> \o OriginB],
      [OpenEnv EXCEPT !.NODE_ENV = Production, !.TEST_ALLOWED_ORIGINS = OriginA] }

\* a request of api/test without credentials and without an origin
TestRequest(method, forwarded, remote, test) ==
    [method |-> method,
     headers |-> [xForwardedFor |-> forwarded, xApiKey |-> Absent, origin |-> Absent,
                  referer |-> Absent],
     remoteAddress |-> remote,
     query |-> [api_key |-> Absent, test |-> test, release |-> Absent]]

\* the requests that exercise the rate limit: two clients, the health check and a test
RateRequests ==
    { TestRequest("GET", ClientA, Absent, Absent),
      TestRequest("GET", ClientA, Absent, <<"g", "i", "t", "h", "u", "b">>),
      TestRequest("GET", ClientB, Absent, Absent),
      TestRequest("OPTIONS", ClientA, Absent, Absent) }

\* the requests that exercise the access checks, all of one client: methods and tests,
\* origins and referers, keys
AccessRequests ==
    LET base == TestRequest("GET", Absent, ClientA, Absent)
        github == TestRequest("GET", Absent, ClientA, <<"g", "i", "t", "h", "u", "b">>)
    IN { TestRequest(m, Absent, a, t) :
            m \in {"GET", "POST", "OPTIONS"},
            a \in {ClientA, Absent},
            t \in { Absent, <<"g", "i", "t", "h", "u", "b">>, <<"j", "i", "r", "a">>, <<"x">> } }
       \cup { [TestRequest("GET", Absent, ClientA, t) EXCEPT !.query.release = r] :
                t \in { <<"r", "e", "l", "e", "a", "s", "e">>, <<"a", "l", "l">> },
                r \in { Absent, <<"6", "7">>, <<"a", "b", "c">> } }
       \cup { [q EXCEPT !.headers.origin = o, !.headers.referer = f] :
                q \in {base, github},
                o \in { Absent, OriginA, OriginB, OriginC, OriginA \o <<".">> \o SubSeq(OriginC, 8, 11) },
                f \in { Absent, OriginA \o <<"/", "x">>, OriginC \o <<"/", "?">> \o OriginA } }
       \cup { [q EXCEPT !.headers.xApiKey = h, !.query.api_key = k] :
                q \in {base, github},
                h \in { Absent, <<"t", "1">>, <<"t", "2">> },
                k \in { Absent, <<"t", "1">> } }

TotalAnswered ==
    Cardinality(UNION { { <<id, k>> : k \in DOMAIN history[id] } : id \in DOMAIN history })

InitTest ==
    /\ MapIdle
    /\ RelIdle
    /\ ChunkIdle
    /\ TokenIdle
    /\ op = "test"
    /\ request = NoRequest
    /\ comparison = NoComparison
    /\ AppQuiet
    /\ appPc = "idle"
    /\ clock = 0
    /\ requestCounts = <<>>
    /\ httpReq = NoHttp
    /\ httpRes = NoHttp
    /\ history = <<>>

InitRate ==
    /\ InitTest
    /\ processEnv \in { OpenEnv, [OpenEnv EXCEPT !.NODE_ENV = Production] }

\* the answers the history holds for a client
AnswersTo(id) == IF id \in DOMAIN history THEN history[id] ELSE <<>>

NextRate ==
    \/ \E req \in RateRequests, githubOk \in BOOLEAN :
          /\ Len(AnswersTo(ClientIdOf(req))) <
                IF ClientIdOf(req) = ClientB THEN MaxOtherRequests ELSE MaxRequests
          /\ api_test(req, githubOk)
    \/ \E t \in Instants :
          /\ t > clock
          /\ Tick(t - clock)

SpecRate == InitRate /\ [][NextRate]_vars

InitAccess ==
    /\ InitTest
    /\ processEnv \in TestEnvs

NextAccess ==
    /\ TotalAnswered < MaxAccessRequests
    /\ \E req \in AccessRequests, githubOk \in BOOLEAN : api_test(req, githubOk)

SpecAccess == InitAccess /\ [][NextAccess]_vars

----------------------------------------------------------------------------
(* Claims about the rate limit of api/test *)

\* the answers to a client that were not 429 and arrived in the interval (lo, hi]
AllowedWithin(id, lo, hi) ==
    { k \in DOMAIN history[id] :
        ~history[id][k].limited /\ lo < history[id][k].at /\ history[id][k].at <= hi }

\* the place of answer k among the answers to the client with the same reset time
RankInWindow(id, k) ==
    Cardinality({ j \in 1..k : history[id][j].resetTime = history[id][k].resetTime })

\* the last request was counted by the rate limit
Counted == httpReq # NoHttp /\ httpReq.method # "OPTIONS"

\* what is said of the 429 answer: no test is run, the remaining count is not negative
LimitedAnswer ==
    Counted =>
        /\ httpRes.remaining >= 0
        /\ httpRes.status = 429 => (httpRes.tests = {} /\ httpRes.kind = "rate_limited")

\* C22 as stated: in any interval of 5 minutes at most 10 requests of a client are
\* allowed, a further one is answered 429 and runs no test, remaining is never negative
C22_TenInAnyWindow ==
    /\ \A id \in DOMAIN history : \A t \in Instants :
          Cardinality(AllowedWithin(id, t - RATE_LIMIT_WINDOW, t)) <= RATE_LIMIT_MAX_REQUESTS
    /\ LimitedAnswer

\* C22: in each window of a client, the 5 minutes that start with the first request the
\* client makes after its previous window expired, at most 10 requests other than OPTIONS
\* are allowed: the 11th and later ones are answered 429 and run no test, the first 10 are
\* not answered 429, and the remaining count is 10 less the number counted, never negative
C22_TenPerWindow ==
    /\ \A id \in DOMAIN history : \A k \in DOMAIN history[id] :
          /\ history[id][k].limited <=> RankInWindow(id, k) > RATE_LIMIT_MAX_REQUESTS
          /\ history[id][k].resetTime - RATE_LIMIT_WINDOW <= history[id][k].at
          /\ history[id][k].at <= history[id][k].resetTime
    /\ LimitedAnswer
    /\ Counted =>
          \A id \in { ClientIdOf(httpReq) } :
             httpRes.remaining =
                IF RankInWindow(id, Len(history[id])) >= RATE_LIMIT_MAX_REQUESTS THEN 0
                ELSE RATE_LIMIT_MAX_REQUESTS - RankInWindow(id, Len(history[id]))

\* the 12th request of a client in one window asks for the GitHub test and is answered
\* 429 with no test run, after ten requests were allowed
C22_Witness ==
    /\ Counted
    /\ httpReq.query.test = <<"g", "i", "t", "h", "u", "b">>
    /\ httpRes.status = 429
    /\ httpRes.tests = {}
    /\ httpRes.remaining = 0
    /\ RankInWindow(ClientA, Len(history[ClientA])) = RATE_LIMIT_MAX_REQUESTS + 2
    /\ Cardinality({ k \in DOMAIN history[ClientA] : ~history[ClientA][k].limited })
          = RATE_LIMIT_MAX_REQUESTS

\* the entry of the Map that still counts for a client at time t: none once more than
\* 5 minutes have passed since its timestamp
Current(counts, id, t) ==
    IF id \in DOMAIN counts /\ t <= counts[id].timestamp + RATE_LIMIT_WINDOW
    THEN counts[id]
    ELSE [count |-> 0, timestamp |-> t]

RateStep ==
    /\ history' # history =>
          \A id \in { ClientIdOf(httpReq') } :
             /\ id \in DOMAIN requestCounts'
             /\ requestCounts'[id].count = Current(requestCounts, id, clock).count + 1
             /\ requestCounts'[id].timestamp = Current(requestCounts, id, clock).timestamp
             /\ httpRes'.resetTime = requestCounts'[id].timestamp + RATE_LIMIT_WINDOW
             /\ httpRes'.status = 429 <=> requestCounts'[id].count > RATE_LIMIT_MAX_REQUESTS
             /\ Current(requestCounts, id, clock).count = 0 =>
                   /\ requestCounts'[id] = [count |-> 1, timestamp |-> clock]
                   /\ httpRes'.status # 429
                   /\ httpRes'.remaining = RATE_LIMIT_MAX_REQUESTS - 1
             /\ \A other \in (DOMAIN requestCounts \cup DOMAIN requestCounts') \ {id} :
                   /\ Current(requestCounts', other, clock) = Current(requestCounts, other, clock)
                   /\ AnswersTo(other)' = AnswersTo(other)
    /\ history' = history => requestCounts' = requestCounts

\* C30: a request made within 5 minutes of the first request of the client's window is
\* counted in that window and leaves its start alone, whether it is allowed or rejected;
\* the first request made more than 5 minutes after that start opens a new window with
\* count 1 and is allowed; a request of one client leaves the count, the window and the
\* answers of every other client as they were
C30_WindowExpires == [][RateStep]_vars

\* a client was rejected in its first window and is allowed again in a new one, while
\* another client was answered in between
C30_Witness ==
    /\ ClientA \in DOMAIN history
    /\ ClientB \in DOMAIN history
    /\ \E k \in DOMAIN history[ClientA] :
          /\ k > 1
          /\ history[ClientA][k - 1].limited
          /\ ~history[ClientA][k].limited
          /\ history[ClientA][k].at = history[ClientA][k - 1].resetTime + 1
          /\ history[ClientA][k].resetTime = history[ClientA][k].at + RATE_LIMIT_WINDOW
    /\ requestCounts[ClientA].count = 1
    /\ ClientB \in DOMAIN requestCounts
    /\ requestCounts[ClientB].timestamp < clock

----------------------------------------------------------------------------
(* Claims about the access checks of api/test *)

\* NODE_ENV is 'production' and ENABLE_TEST_ENDPOINT is not 'true'
Locked ==
    /\ processEnv.NODE_ENV = <<"p", "r", "o", "d", "u", "c", "t", "i", "o", "n">>
    /\ processEnv.ENABLE_TEST_ENDPOINT # <<"t", "r", "u", "e">>

\* C23: in production without ENABLE_TEST_ENDPOINT = 'true', a request other than OPTIONS
\* is answered 403, or 429 when the client is over the rate limit; it starts no test,
\* requests no comparison and gets no health or environment data; an OPTIONS request
\* gets an empty 200
C23_DisabledInProduction ==
    (Locked /\ httpReq # NoHttp) =>
        /\ httpRes.tests = {}
        /\ fetches = <<>>
        /\ httpRes.kind \in {"denied", "rate_limited", "preflight"}
        /\ httpRes.kind = "preflight" <=> httpReq.method = "OPTIONS"
        /\ httpRes.kind = "preflight" => httpRes.status = 200
        /\ httpRes.kind = "denied" => httpRes.status = 403
        /\ httpRes.kind = "rate_limited" => httpRes.status = 429
        /\ Counted =>
              (httpRes.status = 429 <=>
                 RankInWindow(ClientIdOf(httpReq), Len(history[ClientIdOf(httpReq)]))
                    > RATE_LIMIT_MAX_REQUESTS)

\* in production the GitHub test is asked for and refused with 403, and later refused with
\* 429 once the client is over the limit
C23_Witness ==
    /\ Locked
    /\ Counted
    /\ httpReq.query.test = <<"g", "i", "t", "h", "u", "b">>
    /\ httpRes.status = 429
    /\ \E k \in DOMAIN history[ClientA] : ~history[ClientA][k].limited
    /\ httpRes.tests = {}

\* the origins that TEST_ALLOWED_ORIGINS lists
ListedOrigins ==
    { trim(o) : o \in Range(split(processEnv.TEST_ALLOWED_ORIGINS, ",")) }

\* scheme://host[:port] of a URL: what comes before the first '/' after the '//'
OriginPart(url) ==
    LET slashes == { i \in DOMAIN url : url[i] = "/" /\ i > 1 /\ url[i - 1] # "/"
                                         /\ (i = Len(url) \/ url[i + 1] # "/") }
    IN IF slashes = {} THEN url ELSE SubSeq(url, 1, Min(slashes) - 1)

\* the origin a request states: its Origin header, else the origin of its Referer
StatedOrigin ==
    IF Truthy(httpReq.headers.origin) THEN httpReq.headers.origin
    ELSE IF Truthy(httpReq.headers.referer) THEN OriginPart(httpReq.headers.referer)
    ELSE Absent

\* C24: with TEST_ALLOWED_ORIGINS set, a request that is let through the rate limit is
\* served only when the origin it states is one of the listed origins; every other
\* request is answered 403 and starts no test
C24_OnlyListedOrigins ==
    (Counted /\ Truthy(processEnv.TEST_ALLOWED_ORIGINS) /\ httpRes.status # 429) =>
        (StatedOrigin \notin ListedOrigins =>
           (httpRes.status = 403 /\ httpRes.tests = {}))

----------------------------------------------------------------------------
(* The endpoint api/announce *)

\* the variables validateRequiredEnvVars asks for that are not set, in its order
validateRequiredEnvVars(e) ==
    (IF Truthy(e.SLACK_BOT_TOKEN) THEN <<>> ELSE << "SLACK_BOT_TOKEN" >>)
    \o (IF Truthy(e.GITHUB_TOKEN) THEN <<>> ELSE << "GITHUB_TOKEN" >>)
    \o (IF Truthy(e.GITHUB_OWNER) THEN <<>> ELSE << "GITHUB_OWNER" >>)
    \o (IF Truthy(e.GITHUB_REPO) THEN <<>> ELSE << "GITHUB_REPO" >>)
    \o (IF Truthy(e.JIRA_SERVER) THEN <<>> ELSE << "JIRA_SERVER" >>)
    \o (IF Truthy(e.JIRA_PROJECT) THEN <<>> ELSE << "JIRA_PROJECT" >>)

\* mutant: a request without a key is let through
validateApiKey_MissingOk(req, e) ==
    LET providedKey ==
            OrElse(req.headers.xApiKey,
                   IF req.headers.authorization = Absent THEN Absent
                   ELSE ReplaceString(req.headers.authorization,
                                      <<"B", "e", "a", "r", "e", "r", " ">>, <<>>))
    IN IF ~Truthy(e.ANNOUNCE_API_KEY) THEN "API key not configured on server"
       ELSE IF Truthy(providedKey) /\ providedKey # e.ANNOUNCE_API_KEY
       THEN "Invalid or missing API key"
       ELSE "valid"

\* validateApiKey: "valid", or the error
validateApiKey(req, e) ==
    LET providedKey ==
            OrElse(req.headers.xApiKey,
                   IF req.headers.authorization = Absent THEN Absent
                   ELSE ReplaceString(req.headers.authorization,
                                      <<"B", "e", "a", "r", "e", "r", " ">>, <<>>))
    IN IF ~Truthy(e.ANNOUNCE_API_KEY) THEN "API key not configured on server"
       ELSE IF ~Truthy(providedKey) \/ providedKey # e.ANNOUNCE_API_KEY
       THEN "Invalid or missing API key"
       ELSE "valid"

\* channels.channels.find(c => c.name === channelName || c.name === channelName.replace('#', ''))
FindChannel(channels, channelName) ==
    LET hits == { k \in DOMAIN channels :
                    \/ channels[k].name = channelName
                    \/ channels[k].name = ReplaceString(channelName, <<"#">>, <<>>) }
    IN IF hits = {} THEN Absent ELSE channels[Min(hits)].id

\* generateAndSendAnnouncement(releaseNumber, channelId, options) as the endpoint calls
\* it: what it returns, the Slack calls and the comparisons it makes; options.autoSend is
\* not read
Announcement(number, channelId, options, cmp, posted) ==
    LET previousRelease == getPreviousRelease(number)
        changes == AnnounceLoop(cmp.commits, 1, {}, options.filterEmptyCommits)
        msg == AnnouncementMessage(options.customMessage, number, changes)
    IN IF previousRelease.kind = "throw"
       THEN [result |-> Failure(ThrownMessage(previousRelease.value)), calls |-> <<>>,
             fetches |-> <<>>]
       ELSE IF cmp.status # 200
       THEN [result |-> Failure(RequestErrorMessage(cmp.status)), calls |-> <<>>,
             fetches |-> << CompareCommits(previousRelease.value, number) >>]
       ELSE [result |-> IF posted THEN Success(changes, msg)
                        ELSE Failure(<<"A", "n", " ", "A", "P", "I", " ", "e", "r", "r", "o", "r", " ", "o", "c", "c", "u", "r", "r", "e", "d">>),
             calls |-> << Call("chat.postMessage", channelId, <<>>, msg, posted) >>,
             fetches |-> << CompareCommits(previousRelease.value, number) >>]

\* req.body of a request that was sent without a body
NoBody == [kind |-> "none"]

\* a response of api/announce
AnnounceAnswer(status, error) == [status |-> status, error |-> error]

\* the handler of api/announce for one request; slack tells what Slack answers:
\* the channels of conversations.list (or its failure) and whether the post is accepted
api_announce(req, slack) ==
    /\ op = "endpoint"
    /\ appPc = "start"
    /\ httpReq' = req
    /\ \E missing \in { validateRequiredEnvVars(processEnv) } :
       \E apiKeyCheck \in { validateApiKey(req, processEnv) } :
       LET quiet(status, error) ==
               /\ httpRes' = AnnounceAnswer(status, error)
               /\ UNCHANGED <<result, outbox, fetches>>
           body == req.body
           autoSend == body.autoSend # "false"
           filterEmpty == body.filterEmptyCommits # "false"
           customMessage == IF Truthy(body.customMessage) THEN body.customMessage ELSE <<>>
           targetChannelId == IF Truthy(body.channelId) THEN body.channelId
                              ELSE FindChannel(slack.channels, body.channelName)
       IN IF req.method # "POST" THEN quiet(405, "Method not allowed")
          ELSE IF missing # <<>> THEN quiet(500, "Server configuration error")
          ELSE IF apiKeyCheck # "valid" THEN quiet(401, apiKeyCheck)
          ELSE IF body = NoBody THEN quiet(500, "Internal server error")
          ELSE IF ~Truthy(body.releaseNumber) THEN quiet(400, "releaseNumber is required")
          ELSE IF ~Truthy(body.channelId) /\ ~Truthy(body.channelName)
          THEN quiet(400, "Either channelId or channelName is required")
          ELSE IF ~Truthy(body.channelId) /\ ~slack.listed THEN quiet(500, "Slack API error")
          ELSE IF targetChannelId = Absent THEN quiet(404, "Channel not found")
          ELSE \E out \in { Announcement(body.releaseNumber, targetChannelId,
                                         [autoSend |-> autoSend,
                                          filterEmptyCommits |-> filterEmpty,
                                          customMessage |-> customMessage],
                                         comparison, slack.posted) } :
                  /\ result' = out.result
                  /\ outbox' = outbox \o out.calls
                  /\ fetches' = fetches \o out.fetches
                  /\ httpRes' = IF out.result.success THEN AnnounceAnswer(200, "")
                                ELSE AnnounceAnswer(500, "Announcement failed")
    /\ appPc' = "done"
    /\ UNCHANGED <<op, request, comparison, message, state, responses>>
    /\ UNCHANGED <<processEnv, clock, requestCounts, history>>
    /\ UNCHANGED <<mapVars, relVars, chunkVars, tokenVars>>

----------------------------------------------------------------------------
(* Inputs of api/announce *)

AnnounceKey == <<"k", "1">>
Bearer == <<"B", "e", "a", "r", "e", "r", " ">>

\* deployments: complete; without ANNOUNCE_API_KEY; with an empty one; without GITHUB_TOKEN
AnnounceEnvs ==
    { OpenEnv,
      [OpenEnv EXCEPT !.ANNOUNCE_API_KEY = Absent],
      [OpenEnv EXCEPT !.ANNOUNCE_API_KEY = <<>>],
      [OpenEnv EXCEPT !.GITHUB_TOKEN = Absent] }

\* a body; a boolean parameter is "true", "false" or "absent"
AnnounceBody(number, channelId, channelName, autoSend) ==
    [releaseNumber |-> number, channelId |-> channelId, channelName |-> channelName,
     autoSend |-> autoSend, filterEmptyCommits |-> "absent", customMessage |-> Absent]

AnnounceRequest(method, xApiKey, authorization, body) ==
    [method |-> method, headers |-> [xApiKey |-> xApiKey, authorization |-> authorization],
     body |-> body]

\* the bodies: the parameters present and absent, the three values of autoSend
AnnounceBodies ==
    { NoBody }
    \cup { AnnounceBody(n, c, m, a) :
             n \in { Absent, <<>>, <<"6", "7">>, <<"a", "b", "c">> },
             c \in { Absent, <<"C", "1">> },
             m \in { Absent, <<"g", "e", "n", "e", "r", "a", "l">>,
                     <<"#", "g", "e", "n", "e", "r", "a", "l">>, <<"o", "t", "h", "e", "r">> },
             a \in { "absent", "true", "false" } }

\* the requests: every body with the right key, every way of carrying a key with a
\* complete body and with an empty one, the methods
AnnounceRequests ==
    { AnnounceRequest("POST", AnnounceKey, Absent, b) : b \in AnnounceBodies }
    \cup { AnnounceRequest(m, k, a, b) :
             m \in {"POST", "GET"},
             k \in { Absent, AnnounceKey, <<"k", "2">>, <<>> },
             a \in { Absent, Bearer \o AnnounceKey, AnnounceKey, Bearer \o <<"k", "2">>, Bearer },
             b \in { AnnounceBody(<<"6", "7">>, <<"C", "1">>, Absent, "absent"),
                     AnnounceBody(Absent, Absent, Absent, "false") } }

\* what Slack answers: the channel list, or a failure of conversations.list; the post
\* accepted or refused
SlackAnswers ==
    [listed : BOOLEAN, posted : BOOLEAN,
     channels : { << [id |-> <<"C", "2">>, name |-> <<"g", "e", "n", "e", "r", "a", "l">>] >> }]

InitEndpoint ==
    /\ MapIdle
    /\ RelIdle
    /\ ChunkIdle
    /\ TokenIdle
    /\ op = "endpoint"
    /\ request = NoRequest
    /\ comparison \in { [status |-> 200, commits |-> cs] :
                          cs \in { <<>>, <<LoginCommit>>, <<LoginCommit, IssueCommit(1)>> } }
                      \cup FailedComparisons
    /\ AppQuiet
    /\ appPc = "start"
    /\ processEnv \in AnnounceEnvs
    /\ clock = 0
    /\ requestCounts = <<>>
    /\ httpReq = NoHttp
    /\ httpRes = NoHttp
    /\ history = <<>>

NextEndpoint == \E req \in AnnounceRequests, slack \in SlackAnswers : api_announce(req, slack)

SpecEndpoint == InitEndpoint /\ [][NextEndpoint]_vars

----------------------------------------------------------------------------
(* Claims about api/announce *)

EndpointDone == op = "endpoint" /\ appPc = "done"

\* the keys a request carries: the X-API-Key header, the Authorization header without
\* its 'Bearer ' prefix
CarriedKeys ==
    { k \in { httpReq.headers.xApiKey,
              IF StartsWith(httpReq.headers.authorization, <<"B", "e", "a", "r", "e", "r", " ">>)
              THEN SubSeq(httpReq.headers.authorization, 8, Len(httpReq.headers.authorization))
              ELSE httpReq.headers.authorization } : Truthy(k) }
KeyConfigured == Truthy(processEnv.ANNOUNCE_API_KEY)
CarriesKey == KeyConfigured /\ processEnv.ANNOUNCE_API_KEY \in CarriedKeys
CarriesOnlyKey == KeyConfigured /\ CarriedKeys = { processEnv.ANNOUNCE_API_KEY }

\* the body names a release and a channel
Named ==
    /\ httpReq.body # NoBody
    /\ Truthy(httpReq.body.releaseNumber)
    /\ Truthy(httpReq.body.channelId) \/ Truthy(httpReq.body.channelName)

NothingDone == fetches = <<>> /\ outbox = <<>>

\* the variables the endpoint requires are all set
RequiredSet ==
    \A v \in { processEnv.SLACK_BOT_TOKEN, processEnv.GITHUB_TOKEN, processEnv.GITHUB_OWNER,
               processEnv.GITHUB_REPO, processEnv.JIRA_SERVER, processEnv.JIRA_PROJECT } :
       Truthy(v)

C26_AutoSendDecides ==
    EndpointDone =>
        /\ (httpReq.body # NoBody /\ httpReq.body.autoSend = "false") => outbox = <<>>
        /\ (httpReq.body # NoBody /\ httpReq.body.autoSend # "false" /\ httpRes.status = 200) =>
              /\ Len(outbox) = 1
              /\ outbox[1].ok
              /\ outbox[1].method = "chat.postMessage"

----------------------------------------------------------------------------
(* Claims about the published announcement and the preview *)

\* the sections of the preview between the title 'Full announcement preview:' and the
\* divider: the full announcement as the preview shows it
ShownSections ==
    LET blocks == message.blocks
        title == { k \in DOMAIN blocks :
                     /\ blocks[k].type = "section"
                     /\ blocks[k].text = <<"*", "F", "u", "l", "l", " ", "a", "n", "n", "o", "u", "n", "c", "e", "m", "e", "n", "t", " ", "p", "r", "e", "v", "i", "e", "w", ":", "*">> }
        dividers == { k \in DOMAIN blocks : blocks[k].type = "divider" }
    IN IF title = {} \/ dividers = {} THEN <<>>
       ELSE [k \in 1..(Min(dividers) - Min(title) - 1) |-> blocks[Min(title) + k].text]
ShownAnnouncement == JoinWith(ShownSections, <<"\n">>)

\* the checkbox state is the one the preview was delivered with, or none was submitted
Untouched == state = NoState \/ state = StateOf(message.blocks)

\* C27: for a release with 1 to 30 changes, 'Send Selected Changes' on a preview whose
\* checkboxes were not changed publishes the text that the preview shows under 'Full
\* announcement preview': the same header and the same change lines in the same order,
\* with a full token and with a simplified one
C27_PublishedAsPreviewed ==
    (Sent /\ Untouched) =>
        \A original \in { Original } :
           (Len(original) >= 1 /\ Len(original) <= maxChangesToShowLimit) =>
              \A shown \in { ShownAnnouncement } :
                 /\ result.message = shown
                 /\ StartsWith(shown, FixedHeader(GetProp(SendToken, <<"r", "e", "l", "e", "a", "s", "e", "N", "u", "m", "b", "e", "r">>).v))
                 /\ \A k \in DOMAIN outbox : EndsWith(outbox[k].text, shown)
                 /\ \E k \in DOMAIN outbox : outbox[k].method = "chat.postMessage" =>
                       outbox[1].text = shown

\* the preview of 26 ticket changes carries a simplified token; it is confirmed with its
\* 26 boxes checked and the 26 lines shown are posted
C27_Witness ==
    /\ Sent
    /\ state = StateOf(message.blocks)
    /\ ~TokenIsFull
    /\ Len(result.selectedChanges) = ManyTickets
    /\ result.message = ShownAnnouncement
    /\ outbox[1].method = "chat.postMessage"
    /\ outbox[1].ok
    /\ outbox[1].text = result.message

\* C28: the changes that send_announcement selects are in the order of the candidate
\* list, each at most once, whatever the order of the checked options in the payload and
\* the groups they are in
C28_CandidateOrder ==
    Sent =>
        \A candidates \in { Recoverable } :
           \A i, j \in DOMAIN result.selectedChanges :
              i < j =>
                 \E a, b \in DOMAIN candidates :
                    /\ a < b
                    /\ candidates[a] = result.selectedChanges[i]
                    /\ candidates[b] = result.selectedChanges[j]

----------------------------------------------------------------------------
(* Claim about the values getPreviousRelease returns *)

\* C29: a value returned by getPreviousRelease is never 'NaN', never negative and never
\* '0', for dotted and for non-dotted inputs; where there is no valid previous release
\* the call throws
C29_WellFormedPrevious ==
    relResult.kind = "return" =>
        /\ relResult.value # <<"N", "a", "N">>
        /\ relResult.value # <<"0">>
        /\ (relResult.value # <<>> => relResult.value[1] # "-")

====
